---------------------------- MODULE Spec2Model ----------------------------
(***************************************************************************)
(* Collaborator presence overlays of jupyterlab-document-collaborators:     *)
(* the floating cursor labels (persistentUserLabels, a CodeMirror view      *)
(* plugin), the toolbar roster (DocumentCollaboratorsWidget) and the        *)
(* per-cell indicators (CellAwarenessWidget), all projecting the shared     *)
(* awareness state into DOM elements and timers.                            *)
(***************************************************************************)
EXTENDS Integers, Sequences, FiniteSets, TLC

(***************************************************************************)
(* Bounds of the model.                                                     *)
(***************************************************************************)
\* most animation-frame callbacks waiting for the next frame
MaxRaf == 2
\* length of the editor document (view.state.doc.length)
DocLength == 1
\* most modal elements alive (attached or referenced) at a time
MaxModals == 2
\* most pending timers of the widgets at a time
MaxTimers == 2

(***************************************************************************)
(* The awareness instance.                                                  *)
(***************************************************************************)
\* awareness.clientID / awareness.doc.clientID: the local session
LocalClient == 1
RemoteClients == {2, 3}
Clients == {LocalClient} \cup RemoteClients

\* the shared texts cursors can resolve into: YThis is the ytext of the
\* editor that carries the cursor-label plugin (and of the first cell),
\* YOther the ytext of another cell
YThis == "ytext1"
YOther == "ytext2"

\* a cursor without head, and a head whose relative position resolves to null
NoHead == [kind |-> "missing"]
StaleHead == [kind |-> "stale"]
\* a head that is no relative position: resolving it throws
MalformedHead == [kind |-> "malformed"]
AbsHead(t, i) == [kind |-> "abs", type |-> t, index |-> i]

\* state.user: "" stands for a missing (falsy) field
User(n, dn, dN, c) == [name |-> n, display_name |-> dn, displayName |-> dN, color |-> c]
NoUser == User("", "", "", "")

VARIABLES
    states,        \* awareness.getStates(): clientID -> [user, cursors]
    observers,     \* functions registered with awareness.on('change', f)
    plugin,        \* "none" | "active" | "destroyed": the view plugin's life
    labelElements, \* persistentUserLabels.labelElements: userKey -> element
    hideTimers,    \* persistentUserLabels.hideTimers: userKey -> timer id
    rafQueue,      \* requestAnimationFrame callbacks waiting for the next frame
    frameLeft,     \* callbacks of the running frame that have not run yet
    hostError,     \* an exception has left an animation-frame callback
    elem,          \* the elements alive: element id -> its properties
    body,          \* ids of the elements attached to document.body
    timers,        \* pending setTimeout timers, oldest first: [id, kind, ...]
    wAwareness,    \* per widget: this._awareness is set
    ready,         \* per widget: the context.ready callback has run
    disposed,      \* per widget: dispose() has run
    currentModal,  \* per widget: this._currentModal (0: null)
    hideModalTimeout, \* per widget: this._hideModalTimeout (0: null)
    collaborators, \* toolbar: this._collaborators, clientId -> collaborator
    roster,        \* toolbar: the icons rendered into this.node
    tbHidden,      \* toolbar: the widget is hidden
    collaboratorsByCellId, \* cells: cellId -> (clientId -> collaborator)
    lastUserCellLocations, \* cells: clientId -> set of cellIds
    indicatorElements,     \* cells: cellId -> the avatars of its indicator
    hover          \* the element the pointer is over (for a modal: whether
                   \* entering it cancelled a pending hide)

awVars == <<states, observers>>
labelVars == <<plugin, labelElements, hideTimers, rafQueue, frameLeft, hostError>>
domVars == <<elem, body, timers>>
wVars == <<wAwareness, ready, disposed, currentModal, hideModalTimeout>>
tbVars == <<collaborators, roster, tbHidden>>
cwVars == <<collaboratorsByCellId, lastUserCellLocations, indicatorElements>>
widgetVars == <<wVars, tbVars, cwVars, hover>>

\* the two widgets that subscribe to awareness and show modals
Widgets == {"toolbar", "cell"}

(***************************************************************************)
(* Helpers for maps (JavaScript Map / object).                              *)
(***************************************************************************)
MapPut(f, k, v) == [x \in DOMAIN f \cup {k} |-> IF x = k THEN v ELSE f[x]]
MapDel(f, k) == [x \in DOMAIN f \ {k} |-> f[x]]
EmptyMap == [x \in {} |-> 0]
Range(f) == {f[x] : x \in DOMAIN f}
Min(S) == CHOOSE x \in S : \A y \in S : x <= y
\* the keys of a map of numbers, in ascending order
RECURSIVE SortedSeq(_)
SortedSeq(S) ==
    IF S = {} THEN <<>>
    ELSE CHOOSE q \in {<<m>> \o SortedSeq(rest) : m \in {Min(S)}, rest \in {S \ {Min(S)}}} : TRUE

(***************************************************************************)
(* Browser services: element and timer identities.                          *)
(***************************************************************************)
\* document.createElement: an element no live reference points to; ids that
\* were alive when the running handler started are not handed out again
NewElem(el) == Min({i \in 1..(Cardinality(DOMAIN el \cup DOMAIN elem) + 1) :
                      i \notin DOMAIN el \cup DOMAIN elem})

\* the id window.setTimeout returns: positive, and different from every id
\* that is pending or still held in a handle, and from the ids that were
\* pending when the running handler started
TimerIds(tm) == {tm[i].id : i \in DOMAIN tm}
NewTimer(tm, held) ==
    LET used == TimerIds(tm) \cup held \cup TimerIds(timers)
    IN Min({i \in 1..(Cardinality(used) + 1) : i \notin used})

\* clearTimeout(id)
RECURSIVE DropTimers(_, _)
DropTimers(tm, ids) ==
    IF tm = <<>> THEN <<>>
    ELSE (IF Head(tm).id \in ids THEN <<>> ELSE <<Head(tm)>>) \o DropTimers(Tail(tm), ids)
ClearTimeout(tm, id) == DropTimers(tm, {id})

\* setTimeout delays, in ms
HideLabelDelay == 500
ModalDelay == 200
Delay(kind) == IF kind = "hideLabel" THEN HideLabelDelay ELSE ModalDelay

\* the timer at place i may expire next: no timer that was started before it
\* with an equal or shorter delay is still pending
MayExpire(i) ==
    /\ i \in DOMAIN timers
    /\ \A j \in 1..(i - 1) : Delay(timers[j].kind) > Delay(timers[i].kind)
RemoveAt(tm, i) == SubSeq(tm, 1, i - 1) \o SubSeq(tm, i + 1, Len(tm))

(***************************************************************************)
(* persistentUserLabels.updateOverlayLabels: one reconciliation pass.       *)
(* The pass threads the plugin's maps and the DOM through the loops:        *)
(*   st = [le: labelElements, ht: hideTimers, el: elem, bd: body, tm: timers]*)
(* lay is the set of offsets for which view.coordsAtPos returns coordinates *)
(* during this pass (an offset outside lay is not laid out, or the lookup   *)
(* throws inside the try block: both leave the label untouched).            *)
(***************************************************************************)
\* userName / userColor / userKey of updateOverlayLabels
ClientName(c) == IF c = 2 THEN "User 2" ELSE IF c = 3 THEN "User 3" ELSE "User 1"
LabelUserName(user, c) ==
    IF user.display_name # "" THEN user.display_name
    ELSE IF user.name # "" THEN user.name
    ELSE ClientName(c)
LabelUserColor(user) == IF user.color # "" THEN user.color ELSE "#2196F3"
UserKey(c, userName) == <<c, userName>>

\* mutant: only the lower bound is checked
ClampPosition_NoUpper(index, docLength) == IF index < 0 THEN 0 ELSE index

\* "Basic bounds checking"
ClampPosition(index, docLength) ==
    IF index < 0 THEN 0
    ELSE IF index > docLength THEN docLength
    ELSE index

\* handles the plugin and the widgets still hold (so that a new timer id
\* differs from them, as browser timer ids are never reused)
HeldHandles(ht) == Range(ht) \cup (Range(hideModalTimeout) \ {0})

\* mutant: the render does not cancel the timer it replaces
ClearExistingTimer_KeepsOld(st, userKey) == st.tm

\* the timer reset of a render: clearTimeout(existingTimer) when there is one
ClearExistingTimer(st, userKey) ==
    IF userKey \in DOMAIN st.ht THEN ClearTimeout(st.tm, st.ht[userKey]) ELSE st.tm

\* mutant: a render of a key that has a timer keeps that timer and
\* schedules none
RenderLabel_KeepsTimer(st, userKey, userName, userColor, position) ==
    LET isNew == userKey \notin DOMAIN st.le
        label == IF isNew THEN NewElem(st.el) ELSE st.le[userKey]
        props == IF isNew
                   THEN [kind |-> "label", name |-> userName, color |-> userColor,
                         left |-> position, visible |-> TRUE]
                   ELSE [st.el[label] EXCEPT !.left = position, !.visible = TRUE]
        hideTimer == NewTimer(st.tm, HeldHandles(st.ht))
        keep == userKey \in DOMAIN st.ht
    IN [le |-> MapPut(st.le, userKey, label),
        ht |-> IF keep THEN st.ht ELSE MapPut(st.ht, userKey, hideTimer),
        el |-> MapPut(st.el, label, props),
        bd |-> st.bd \cup {label},
        tm |-> IF keep THEN st.tm
               ELSE Append(st.tm, [id |-> hideTimer, kind |-> "hideLabel", key |-> userKey])]

\* mutant: every render creates a new label element
RenderLabel_AlwaysNew(st, userKey, userName, userColor, position) ==
    LET label == NewElem(st.el)
        tm1 == ClearExistingTimer(st, userKey)
        hideTimer == NewTimer(tm1, HeldHandles(st.ht))
    IN [le |-> MapPut(st.le, userKey, label),
        ht |-> MapPut(st.ht, userKey, hideTimer),
        el |-> MapPut(st.el, label,
                      [kind |-> "label", name |-> userName, color |-> userColor,
                       left |-> position, visible |-> TRUE]),
        bd |-> st.bd \cup {label},
        tm |-> Append(tm1, [id |-> hideTimer, kind |-> "hideLabel", key |-> userKey])]

\* the body of the try block: get or create the label, show it at the
\* coordinates, reset the hide timer of the key
RenderLabel(st, userKey, userName, userColor, position) ==
    LET isNew == userKey \notin DOMAIN st.le
        label == IF isNew THEN NewElem(st.el) ELSE st.le[userKey]
        le1 == IF isNew THEN MapPut(st.le, userKey, label) ELSE st.le
        props == IF isNew
                   THEN [kind |-> "label", name |-> userName, color |-> userColor,
                         left |-> position, visible |-> TRUE]
                   ELSE [st.el[label] EXCEPT !.left = position, !.visible = TRUE]
        el1 == MapPut(st.el, label, props)
        bd1 == IF isNew THEN st.bd \cup {label} ELSE st.bd
        tm1 == ClearExistingTimer(st, userKey)
        hideTimer == NewTimer(tm1, HeldHandles(st.ht))
        tm2 == Append(tm1, [id |-> hideTimer, kind |-> "hideLabel", key |-> userKey])
    IN [le |-> le1, ht |-> MapPut(st.ht, userKey, hideTimer),
        el |-> el1, bd |-> bd1, tm |-> tm2]

\* mutant: the container of the head is not compared with this editor's ytext
RenderCursor_AnyContainer(st, userKey, userName, userColor, cursor, lay) ==
    IF cursor.head = NoHead THEN st
    ELSE IF cursor.head = StaleHead THEN st
    ELSE LET position == ClampPosition(cursor.head.index, DocLength)
         IN IF position \notin lay THEN st
            ELSE RenderLabel(st, userKey, userName, userColor, position)

\* mutant: a cursor without coordinates is rendered at its offset all the same
RenderCursor_IgnoresCoords(st, userKey, userName, userColor, cursor, lay) ==
    IF cursor.head = NoHead THEN st
    ELSE IF cursor.head = StaleHead THEN st
    ELSE IF cursor.head.type # YThis THEN st
    ELSE RenderLabel(st, userKey, userName, userColor,
                     ClampPosition(cursor.head.index, DocLength))

\* one iteration of "for (const cursor of cursors_ ?? [])"
RenderCursor(st, userKey, userName, userColor, cursor, lay) ==
    IF cursor.head = NoHead THEN st
    ELSE IF cursor.head = StaleHead THEN st
    ELSE IF cursor.head.type # YThis THEN st
    ELSE LET position == ClampPosition(cursor.head.index, DocLength)
         IN IF position \notin lay THEN st
            ELSE RenderLabel(st, userKey, userName, userColor, position)

RECURSIVE RenderCursors(_, _, _, _, _, _)
\* mutant: the loop ends at the first cursor whose head is missing or stale
RenderCursors_StopsAtSkipped(st, userKey, userName, userColor, cursors, lay) ==
    IF cursors = <<>> THEN st
    ELSE IF Head(cursors).head \in {NoHead, StaleHead} THEN st
    ELSE RenderCursors(
           RenderCursor(st, userKey, userName, userColor, Head(cursors), lay),
           userKey, userName, userColor, Tail(cursors), lay)

RenderCursors(st, userKey, userName, userColor, cursors, lay) ==
    IF cursors = <<>> THEN st
    ELSE RenderCursors(
           RenderCursor(st, userKey, userName, userColor, Head(cursors), lay),
           userKey, userName, userColor, Tail(cursors), lay)

\* mutant: no client is taken for the local one
IsOwnClient_Never(c) == FALSE

\* the clients whose state a surface looks at: all but the local one
IsOwnClient(c) == c = LocalClient

\* the callback of awareness.getStates().forEach for one client
RenderClient(st, c, lay) ==
    IF IsOwnClient(c) THEN st
    ELSE LET user == states[c].user
             userName == LabelUserName(user, c)
         IN RenderCursors(st, UserKey(c, userName), userName,
                          LabelUserColor(user), states[c].cursors, lay)

RECURSIVE RenderClients(_, _, _)
RenderClients(st, cs, lay) ==
    IF cs = <<>> THEN st
    ELSE RenderClients(RenderClient(st, Head(cs), lay), Tail(cs), lay)

\* activeUsers: the key of every remote client in getStates(), added before
\* the client's cursors are looked at
ActiveUsers ==
    {UserKey(c, LabelUserName(states[c].user, c)) :
        c \in {d \in DOMAIN states : ~IsOwnClient(d)}}

\* mutant: a label stays while its client is in the awareness states,
\* whatever name its key carries
RemoveInactive_ByClient(st, activeUsers) ==
    LET gone == {k \in DOMAIN st.le : k[1] \notin {a[1] : a \in activeUsers}}
        goneTimers == {st.ht[k] : k \in gone \cap DOMAIN st.ht}
    IN [le |-> [k \in DOMAIN st.le \ gone |-> st.le[k]],
        ht |-> [k \in DOMAIN st.ht \ gone |-> st.ht[k]],
        el |-> [e \in DOMAIN st.el \ {st.le[k] : k \in gone} |-> st.el[e]],
        bd |-> st.bd \ {st.le[k] : k \in gone},
        tm |-> DropTimers(st.tm, goneTimers)]

\* mutant: the removal leaves the hide timers of the removed keys pending
RemoveInactive_KeepsTimers(st, activeUsers) ==
    LET gone == {k \in DOMAIN st.le : k \notin activeUsers}
    IN [le |-> [k \in DOMAIN st.le \ gone |-> st.le[k]],
        ht |-> [k \in DOMAIN st.ht \ gone |-> st.ht[k]],
        el |-> [e \in DOMAIN st.el \ {st.le[k] : k \in gone} |-> st.el[e]],
        bd |-> st.bd \ {st.le[k] : k \in gone},
        tm |-> st.tm]

\* "Remove labels for users who are no longer active"
RemoveInactive(st, activeUsers) ==
    LET gone == {k \in DOMAIN st.le : k \notin activeUsers}
        goneTimers == {st.ht[k] : k \in gone \cap DOMAIN st.ht}
    IN [le |-> [k \in DOMAIN st.le \ gone |-> st.le[k]],
        ht |-> [k \in DOMAIN st.ht \ gone |-> st.ht[k]],
        el |-> [e \in DOMAIN st.el \ {st.le[k] : k \in gone} |-> st.el[e]],
        bd |-> st.bd \ {st.le[k] : k \in gone},
        tm |-> DropTimers(st.tm, goneTimers)]

\* the first cursor of the array whose head makes
\* createAbsolutePositionFromRelativePosition throw (0: none)
ThrowsAt(cursors) ==
    IF \E i \in DOMAIN cursors : cursors[i].head = MalformedHead
    THEN Min({i \in DOMAIN cursors : cursors[i].head = MalformedHead})
    ELSE 0
\* the remote clients at whose state the pass throws
ThrowingClients ==
    {c \in DOMAIN states : ~IsOwnClient(c) /\ ThrowsAt(states[c].cursors) # 0}
\* the pass ends with an exception (thrown outside its try block)
PassThrows == ThrowingClients # {}

\* the pass up to the exception: the clients before the throwing one, the
\* cursors of that client before the throwing one, and no removal phase
PassUntilThrow(st0, lay) ==
    LET c == Min(ThrowingClients)
        st1 == RenderClients(st0, SortedSeq({d \in DOMAIN states : d < c}), lay)
        userName == LabelUserName(states[c].user, c)
    IN RenderCursors(st1, UserKey(c, userName), userName, LabelUserColor(states[c].user),
                     SubSeq(states[c].cursors, 1, ThrowsAt(states[c].cursors) - 1), lay)

UpdateOverlayLabels(lay) ==
    LET st0 == [le |-> labelElements, ht |-> hideTimers, el |-> elem,
                bd |-> body, tm |-> timers]
        st1 == RenderClients(st0, SortedSeq(DOMAIN states), lay)
    IN IF PassThrows THEN PassUntilThrow(st0, lay)
       ELSE RemoveInactive(st1, ActiveUsers)

\* the plugin's maps and the DOM after a pass
ApplyPass(lay) ==
    \E st \in {UpdateOverlayLabels(lay)} :
       /\ labelElements' = st.le
       /\ hideTimers' = st.ht
       /\ elem' = st.el
       /\ body' = st.bd
       /\ timers' = st.tm

Layouts == SUBSET (0..DocLength)


(***************************************************************************)
(* The awareness change notification and the cursor-label plugin.           *)
(***************************************************************************)
Absent == [kind |-> "absent"]

\* this._listener of the plugin: one function object per plugin instance
PluginListener == [owner |-> "label", n |-> 1]

\* awareness.setLocalState / applyAwarenessUpdate / removeAwarenessStates:
\* the state of client c becomes s (Absent: c leaves getStates())
SetState(c, s) ==
    IF s = Absent THEN MapDel(states, c) ELSE MapPut(states, c, s)

\* _listener({added, updated, removed}): a pass is requested for the next
\* frame when a client other than the local one is among the changed ones
ListenerSchedules(changed) ==
    IF PluginListener \in observers /\ \E id \in changed : id # LocalClient
    THEN 1 ELSE 0

\* new persistentUserLabels(view): the first pass, then the subscription;
\* an exception of the pass is caught and the subscription is skipped
Construct(lay) ==
    /\ plugin = "none"
    /\ frameLeft = 0
    /\ ApplyPass(lay)
    /\ IF PassThrows
       THEN /\ plugin' = "failed"
            /\ UNCHANGED observers
       ELSE /\ plugin' = "active"
            /\ observers' = observers \cup {PluginListener}
    /\ UNCHANGED <<states, rafQueue, frameLeft, hostError>>
    /\ UNCHANGED widgetVars

\* mutant: destroy() clears the timers and forgets to empty hideTimers
DestroyResult_KeepsTimerEntries(s) ==
    [obs |-> s.obs \ {PluginListener},
     tm |-> DropTimers(s.tm, Range(s.ht)),
     ht |-> s.ht,
     bd |-> s.bd \ Range(s.le),
     el |-> [e \in DOMAIN s.el \ Range(s.le) |-> s.el[e]],
     le |-> EmptyMap]

\* destroy(), on s = [obs: the registered functions, le, ht, el, bd, tm]
DestroyResult(s) ==
    [obs |-> s.obs \ {PluginListener},
     tm |-> DropTimers(s.tm, Range(s.ht)),
     ht |-> EmptyMap,
     bd |-> s.bd \ Range(s.le),
     el |-> [e \in DOMAIN s.el \ Range(s.le) |-> s.el[e]],
     le |-> EmptyMap]

\* what destroy() works on
PluginState ==
    [obs |-> observers, le |-> labelElements, ht |-> hideTimers,
     el |-> elem, bd |-> body, tm |-> timers]

DestroyEffect ==
    \E r \in {DestroyResult(PluginState)} :
       /\ observers' = r.obs
       /\ timers' = r.tm
       /\ hideTimers' = r.ht
       /\ body' = r.bd
       /\ elem' = r.el
       /\ labelElements' = r.le

Destroy ==
    /\ plugin \in {"active", "failed"}
    /\ frameLeft = 0
    /\ DestroyEffect
    /\ plugin' = "destroyed"
    /\ UNCHANGED <<states, rafQueue, frameLeft, hostError>>
    /\ UNCHANGED widgetVars

\* update(update): the editor reports a view update
EditorUpdate(docChanged, selectionSet, viewportChanged, hasTransactions) ==
    /\ plugin \in {"active", "failed"}
    /\ frameLeft = 0
    /\ IF docChanged \/ selectionSet \/ viewportChanged \/ hasTransactions
       THEN /\ rafQueue < MaxRaf
            /\ rafQueue' = rafQueue + 1
       ELSE rafQueue' = rafQueue
    /\ UNCHANGED <<states, observers, plugin, labelElements, hideTimers, frameLeft, hostError>>
    /\ UNCHANGED <<domVars, widgetVars>>

\* the browser starts an animation frame: the callbacks requested so far
\* run in it, one after the other, before any other task
BeginFrame ==
    /\ frameLeft = 0
    /\ rafQueue > 0
    /\ frameLeft' = rafQueue
    /\ rafQueue' = 0
    /\ UNCHANGED <<states, observers, plugin, labelElements, hideTimers, hostError>>
    /\ UNCHANGED <<domVars, widgetVars>>

\* one requestAnimationFrame callback: () => this.updateOverlayLabels(view);
\* an exception of the pass leaves the callback
RunPass(lay) ==
    /\ frameLeft > 0
    /\ ApplyPass(lay)
    /\ frameLeft' = frameLeft - 1
    /\ hostError' = (hostError \/ PassThrows)
    /\ UNCHANGED <<states, observers, plugin, rafQueue>>
    /\ UNCHANGED widgetVars

\* the callback of the hide timer of a key, 500 ms after its render
HideLabel(i) ==
    /\ frameLeft = 0
    /\ MayExpire(i)
    /\ timers[i].kind = "hideLabel"
    /\ LET userKey == timers[i].key
       IN /\ elem' = IF userKey \in DOMAIN labelElements
                     THEN [elem EXCEPT ![labelElements[userKey]].visible = FALSE]
                     ELSE elem
          /\ hideTimers' = MapDel(hideTimers, userKey)
    /\ timers' = RemoveAt(timers, i)
    /\ UNCHANGED <<states, observers, plugin, labelElements, rafQueue, frameLeft, body, hostError>>
    /\ UNCHANGED widgetVars

(***************************************************************************)
(* Inputs of the cursor-label specification.                                *)
(***************************************************************************)
Cur(h) == [head |-> h]
LabelCursorArrays ==
    { <<>>,
      <<Cur(AbsHead(YThis, 0))>>,
      <<Cur(AbsHead(YThis, DocLength + 1))>>,
      <<Cur(AbsHead(YOther, 0))>>,
      <<Cur(AbsHead(YThis, 0)), Cur(AbsHead(YThis, 1))>> }
LabelUsers == {User("ann", "", "", "")}
\* the view updates the editor reports: [docChanged, selectionSet,
\* viewportChanged, transactions.length > 0]
UpdateFlags ==
    { <<FALSE, FALSE, FALSE, FALSE>>, <<TRUE, FALSE, FALSE, TRUE>>,
      <<FALSE, TRUE, FALSE, TRUE>>, <<FALSE, FALSE, TRUE, FALSE>>,
      <<FALSE, FALSE, FALSE, TRUE>> }
LabelStates ==
    [user : LabelUsers, cursors : LabelCursorArrays] \cup {Absent}
LocalStates ==
    [user : LabelUsers, cursors : {<<>>, <<Cur(AbsHead(YThis, 0))>>}]

(***************************************************************************)
(* The toolbar roster: DocumentCollaboratorsWidget.                         *)
(***************************************************************************)
MaxVisibleCollaborators == 3

\* the function object a call of f.bind(this) returns: a new one each time,
\* different from every function registered so far
Bind(w) == [owner |-> w,
            n |-> Min({i \in 1..(Cardinality(observers) + 1) :
                         [owner |-> w, n |-> i] \notin observers})]
Subscribed(w) == \E f \in observers : f.owner = w

(***************************************************************************)
(* generateUserColor: the color derived from a name.  A 32-bit integer is   *)
(* kept as its two 16-bit halves <<hi, lo>> (the unsigned reading of the    *)
(* two's-complement value); it is negative iff hi >= SignHalf.               *)
(***************************************************************************)
Half == 65536
SignHalf == 32768
Int32Zero == <<0, 0>>
IsNegative(h) == h[1] >= SignHalf

\* the names awareness carries (user.name, user.display_name, user.displayName)
KnownNames == {"", "ann", "Bob", "dee", "Ada Lovelace", "polygenelubricants"}
\* names made of white space, or with white space around the word
BlankNames == {" ", " ann "}
CarriedNames == KnownNames \cup BlankNames

\* name.charCodeAt(i) for i over the name
CharCodes(name) ==
    CASE name = "" -> <<>>
      [] name = "ann" -> <<97, 110, 110>>
      [] name = "Bob" -> <<66, 111, 98>>
      [] name = "dee" -> <<100, 101, 101>>
      [] name = "Ada Lovelace" ->
            <<65, 100, 97, 32, 76, 111, 118, 101, 108, 97, 99, 101>>
      [] name = "polygenelubricants" ->
            <<112, 111, 108, 121, 103, 101, 110, 101, 108,
              117, 98, 114, 105, 99, 97, 110, 116, 115>>
      [] name = " " -> <<32>>
      [] name = " ann " -> <<32, 97, 110, 110, 32>>

\* hash << 5
ShiftLeft5(h) ==
    LET lo == h[2] * 32
    IN <<(h[1] * 32 + lo \div Half) % Half, lo % Half>>

\* a - b, wrapped to 32 bits
Sub32(a, b) ==
    LET lo == a[2] - b[2]
        borrow == IF lo < 0 THEN 1 ELSE 0
    IN <<(a[1] - b[1] - borrow + 2 * Half) % Half, (lo + Half) % Half>>

\* a + char for a UTF-16 code unit, wrapped to 32 bits
AddChar32(a, char) ==
    LET lo == a[2] + char
    IN <<(a[1] + lo \div Half) % Half, lo % Half>>

\* hash = ((hash << 5) - hash) + char; hash = hash & hash
HashStep(hash, char) == AddChar32(Sub32(ShiftLeft5(hash), hash), char)

RECURSIVE HashFrom(_, _)
HashFrom(hash, codes) ==
    IF codes = <<>> THEN hash
    ELSE CHOOSE r \in {HashFrom(next, rest) :
                          next \in {HashStep(hash, Head(codes))},
                          rest \in {Tail(codes)}} : TRUE

\* Math.abs(hash): the magnitude, as an unsigned value (2^31 for -2^31)
Abs32(h) == IF IsNegative(h) THEN Sub32(Int32Zero, h) ELSE h

\* x % colors.length for a non-negative x of at most 2^31
Mod32(h, n) == ((h[1] % n) * (Half % n) + h[2]) % n

\* hash % colors.length without Math.abs: the remainder takes the sign of a
\* negative hash
PaletteIndex_NoAbs(h, n) ==
    IF IsNegative(h) THEN 0 - Mod32(Abs32(h), n) ELSE Mod32(h, n)

\* Math.abs(hash) % colors.length
PaletteIndex(h, n) == Mod32(Abs32(h), n)

\* colors[i] of a JavaScript array (i counted from 0)
ColorAt(colors, i) ==
    IF i \in 0..(Len(colors) - 1) THEN colors[i + 1] ELSE "undefined"

\* the palette of the toolbar's generateUserColor
ToolbarColors ==
    << "#4CAF50", "#2196F3", "#FF9800", "#9C27B0", "#F44336",
       "#009688", "#795548", "#607D8B", "#E91E63", "#3F51B5",
       "#00BCD4", "#8BC34A", "#FFC107", "#FF5722", "#9E9E9E" >>

\* generateUserColor of the toolbar widget's file, on the code units of a name
GenerateUserColorOf(codes) ==
    LET hash == HashFrom(Int32Zero, codes)
    IN ColorAt(ToolbarColors, PaletteIndex(hash, Len(ToolbarColors)))
\* its values on the names awareness carries, computed once
GenerateUserColorTable ==
    [n \in CarriedNames |-> GenerateUserColorOf(CharCodes(n))] @@ <<>>
GenerateUserColor(name) == GenerateUserColorTable[name]

\* the palette of the cell widget's generateUserColor
CellColors ==
    << "#4CAF50", "#2196F3", "#FF9800", "#9C27B0", "#F44336",
       "#009688", "#795548", "#607D8B", "#E91E63", "#3F51B5",
       "#00BCD4", "#8BC34A", "#FFC107", "#FF5722", "#9E9E9E" >>

\* generateUserColor of the cursor-label file, used by the cell widget, on
\* the code units of a name
CellGenerateUserColorOf(codes) ==
    LET hash == HashFrom(Int32Zero, codes)
    IN ColorAt(CellColors, PaletteIndex(hash, Len(CellColors)))
CellGenerateUserColorTable ==
    [n \in CarriedNames |-> CellGenerateUserColorOf(CharCodes(n))] @@ <<>>
CellGenerateUserColor(name) == CellGenerateUserColorTable[name]

(***************************************************************************)
(* generateInitials: the initials of a name, on its UTF-16 code units.      *)
(***************************************************************************)
\* the code units /\s/ and trim() take for white space, among those of the
\* names: tab, line feed, carriage return, space
WhiteSpace == {9, 10, 13, 32}
Max(S) == CHOOSE x \in S : \A y \in S : x >= y

\* name.trim()
Trim(codes) ==
    LET solid == {i \in DOMAIN codes : codes[i] \notin WhiteSpace}
    IN IF solid = {} THEN <<>> ELSE SubSeq(codes, Min(solid), Max(solid))

\* trimmed.split(/\s+/) of a trimmed string: the maximal runs without white
\* space, in order; the empty string gives one empty part
SplitWhiteSpace(codes) ==
    LET starts == {i \in DOMAIN codes :
                     codes[i] \notin WhiteSpace /\ (i = 1 \/ codes[i - 1] \in WhiteSpace)}
        endOf(i) == Min({j \in i..Len(codes) :
                           j = Len(codes) \/ codes[j + 1] \in WhiteSpace})
        order == SortedSeq(starts)
    IN IF codes = <<>> THEN << <<>> >>
       ELSE [k \in DOMAIN order |-> SubSeq(codes, order[k], endOf(order[k]))]

\* toUpperCase() of one code unit (the names carry Latin letters without
\* diacritics, digits, white space and punctuation)
ToUpperCase(code) == IF code \in 97..122 THEN code - 32 ELSE code
UpperCased(codes) == [i \in DOMAIN codes |-> ToUpperCase(codes[i])]

\* '??'
UnknownInitials == <<63, 63>>

\* mutant: the first two characters of the first word, whatever follows
GenerateInitialsOf_FirstTwo(codes) ==
    IF codes = <<>> THEN UnknownInitials
    ELSE LET parts == SplitWhiteSpace(Trim(codes))
         IN UpperCased(SubSeq(parts[1], 1, Min({2, Len(parts[1])})))

\* generateInitials of the toolbar widget's file
GenerateInitialsOf(codes) ==
    IF codes = <<>> THEN UnknownInitials
    ELSE LET parts == SplitWhiteSpace(Trim(codes))
         IN IF Len(parts) = 1
            THEN UpperCased(SubSeq(parts[1], 1, Min({2, Len(parts[1])})))
            ELSE UpperCased(<<parts[1][1], parts[Len(parts)][1]>>)
\* its values on the names awareness carries, computed once
GenerateInitialsTable ==
    [n \in CarriedNames |-> GenerateInitialsOf(CharCodes(n))] @@ <<>>
GenerateInitials(name) == GenerateInitialsTable[name]

\* generateInitials of the cursor-label file, used by the cell widget
CellGenerateInitialsOf(codes) ==
    IF codes = <<>> THEN UnknownInitials
    ELSE LET parts == SplitWhiteSpace(Trim(codes))
         IN IF Len(parts) = 1
            THEN UpperCased(SubSeq(parts[1], 1, Min({2, Len(parts[1])})))
            ELSE UpperCased(<<parts[1][1], parts[Len(parts)][1]>>)
CellGenerateInitialsTable ==
    [n \in CarriedNames |-> CellGenerateInitialsOf(CharCodes(n))] @@ <<>>
CellGenerateInitials(name) == CellGenerateInitialsTable[name]

\* const name = user.name || user.displayName
ToolbarName(user) == IF user.name # "" THEN user.name ELSE user.displayName

\* let color = user.color || state.color || user.cursorColor ||
\* state.cursorColor; if (!color) color = generateUserColor(name).  The
\* awareness states carry a color in user.color only.
ToolbarColor(user) ==
    IF user.color # "" THEN user.color ELSE GenerateUserColor(ToolbarName(user))

Collaborator(c, name, color, initials) ==
    [clientId |-> c, name |-> name, color |-> color, initials |-> initials]

\* the body of _updateCollaboratorsFromAwareness once this._awareness is set:
\* one collaborator per remote client with a name
CollaboratorsFromStates(sts) ==
    LET named == {c \in DOMAIN sts :
                    ~IsOwnClient(c) /\ ToolbarName(sts[c].user) # ""}
    IN [c \in named |-> Collaborator(c, ToolbarName(sts[c].user),
                                    ToolbarColor(sts[c].user),
                                    GenerateInitials(ToolbarName(sts[c].user)))]

\* mutant: a client without cursors is left out
UpdateCollaboratorsFromAwareness_NeedsCursor(sts) ==
    IF ~wAwareness["toolbar"] THEN collaborators
    ELSE LET named == {c \in DOMAIN sts :
                         /\ ~IsOwnClient(c) /\ ToolbarName(sts[c].user) # ""
                         /\ sts[c].cursors # <<>>}
         IN [c \in named |-> Collaborator(c, ToolbarName(sts[c].user),
                                         ToolbarColor(sts[c].user),
                                         GenerateInitials(ToolbarName(sts[c].user)))]

\* _updateCollaboratorsFromAwareness, reading sts = awareness.getStates()
UpdateCollaboratorsFromAwareness(sts) ==
    IF ~wAwareness["toolbar"] THEN collaborators ELSE CollaboratorsFromStates(sts)

\* mutant: every collaborator gets an avatar and no "+N" icon is added
AvatarStack_AllShown(cols, maxVisible) ==
    LET ids == SortedSeq(DOMAIN cols)
    IN [i \in 1..Len(ids) |-> [kind |-> "user", collaborator |-> cols[ids[i]]]]

\* the avatars of an avatar stack: the first maxVisible collaborators, then
\* a "+N" icon when more remain
AvatarStack(cols, maxVisible) ==
    LET ids == SortedSeq(DOMAIN cols)
        shown == IF Len(ids) > maxVisible THEN maxVisible ELSE Len(ids)
        remainingCount == IF Len(ids) - maxVisible > 0 THEN Len(ids) - maxVisible ELSE 0
    IN [i \in 1..shown |-> [kind |-> "user", collaborator |-> cols[ids[i]]]]
       \o (IF remainingCount > 0
           THEN <<[kind |-> "more", count |-> remainingCount]>> ELSE <<>>)

\* _renderCollaborators: the icons of this.node, and whether the widget hides
RenderCollaborators(cols) ==
    [roster |-> AvatarStack(cols, MaxVisibleCollaborators),
     hidden |-> DOMAIN cols = {}]

\* the collaborators the "+N" modal lists
HiddenCollaborators(cols) ==
    LET ids == SortedSeq(DOMAIN cols)
    IN [i \in 1..(IF Len(ids) > MaxVisibleCollaborators
                  THEN Len(ids) - MaxVisibleCollaborators ELSE 0) |->
          cols[ids[i + MaxVisibleCollaborators]]]

(***************************************************************************)
(* The per-cell indicators: CellAwarenessWidget.                            *)
(***************************************************************************)
MaxVisibleCell == 3

\* ytextToCellId.get(head.type): the notebook has two cells
CellIdOf(ytext) ==
    IF ytext = YThis THEN "cell1" ELSE IF ytext = YOther THEN "cell2" ELSE ""

\* const name = user.name || user.display_name
CellName(user) == IF user.name # "" THEN user.name ELSE user.display_name

\* let color = user.color; if (!color) color = generateUserColor(name)
CellColor(user) ==
    IF user.color # "" THEN user.color ELSE CellGenerateUserColor(CellName(user))

\* the cell a cursor is in ("": skipped by the loop)
CursorCell(cursor) ==
    IF cursor.head = NoHead THEN ""
    ELSE IF cursor.head = StaleHead THEN ""
    ELSE IF cursor.head = MalformedHead THEN ""
    ELSE CellIdOf(cursor.head.type)

CellsForUser(cursors) == {CursorCell(cursors[i]) : i \in DOMAIN cursors} \ {""}

NamedRemote(sts) ==
    {c \in DOMAIN sts : ~IsOwnClient(c) /\ CellName(sts[c].user) # ""}

\* currentUserCellLocations of _detectCellLocationChanges
CurrentUserCellLocations(sts) ==
    [c \in NamedRemote(sts) |-> CellsForUser(sts[c].cursors)]

\* mutant: a client that is no longer tracked is not noticed
HasChanges_IgnoresLeft(current, last) ==
    \E c \in DOMAIN current :
       current[c] # (IF c \in DOMAIN last THEN last[c] ELSE {})

\* hasChanges of _detectCellLocationChanges
HasChanges(current, last) ==
    \/ \E c \in DOMAIN current :
          current[c] # (IF c \in DOMAIN last THEN last[c] ELSE {})
    \/ \E c \in DOMAIN last : c \notin DOMAIN current

\* the body of _updateCellCollaborators once this._awareness is set
CellCollaboratorsFromStates(sts) ==
    LET in(cellId) == {c \in NamedRemote(sts) : cellId \in CellsForUser(sts[c].cursors)}
        cells == {cellId \in {"cell1", "cell2"} : in(cellId) # {}}
    IN [cellId \in cells |->
          [c \in in(cellId) |-> Collaborator(c, CellName(sts[c].user),
                                           CellColor(sts[c].user),
                                           CellGenerateInitials(CellName(sts[c].user)))]]

\* _updateCellCollaborators
UpdateCellCollaborators(sts) ==
    IF ~wAwareness["cell"] THEN collaboratorsByCellId
    ELSE CellCollaboratorsFromStates(sts)

\* _renderCellIndicators: one indicator per cell that has collaborators
RenderCellIndicators(byCell) ==
    [cellId \in DOMAIN byCell |-> AvatarStack(byCell[cellId], MaxVisibleCell)]

(***************************************************************************)
(* The collaborator modal of a widget (the same code in both widgets).      *)
(* The operators work on m = [tm: timers, el: elem, bd: body,               *)
(* cm: this._currentModal, ht: this._hideModalTimeout].                     *)
(***************************************************************************)
ModalState(w) == [tm |-> timers, el |-> elem, bd |-> body,
                  cm |-> currentModal[w], ht |-> hideModalTimeout[w]]

HeldByOthers == Range(hideTimers) \cup (Range(hideModalTimeout) \ {0})

\* _clearHideModalTimeout
ClearHideModalTimeout(m) ==
    IF m.ht # 0 THEN [m EXCEPT !.tm = ClearTimeout(m.tm, m.ht), !.ht = 0] ELSE m

\* _hideCurrentModal: the removal is left to a timer
HideCurrentModal(m, w) ==
    IF m.cm # 0
    THEN [m EXCEPT !.tm = Append(m.tm, [id |-> NewTimer(m.tm, HeldByOthers \cup {m.ht}),
                                        kind |-> "removeModal", w |-> w])]
    ELSE m

\* the callback of the timer _hideCurrentModal starts
RemoveCurrentModal(m) ==
    IF m.cm # 0 /\ m.cm \in m.bd
    THEN [m EXCEPT !.bd = m.bd \ {m.cm}, !.el = MapDel(m.el, m.cm), !.cm = 0]
    ELSE [m EXCEPT !.cm = 0]

\* _scheduleHideModal
ScheduleHideModal(m, w) ==
    LET m1 == ClearHideModalTimeout(m)
        id == NewTimer(m1.tm, HeldByOthers)
    IN [m1 EXCEPT !.tm = Append(m1.tm, [id |-> id, kind |-> "hideModal", w |-> w]),
                  !.ht = id]

\* const padding = 8
Padding == 8

\* what _positionAndShowModal measures: targetElement.getBoundingClientRect(),
\* modal.getBoundingClientRect() and window.innerWidth, in whole pixels
Rect(left, top, width, height) ==
    [left |-> left, top |-> top, width |-> width, height |-> height]
Geometry(targetRect, modalRect, innerWidth) ==
    [targetRect |-> targetRect, modalRect |-> modalRect, innerWidth |-> innerWidth]
\* an avatar in the middle of a wide window
DefaultGeometry == Geometry(Rect(100, 100, 24, 24), Rect(0, 0, 100, 50), 1000)

\* mutant: the left edge is bounded on the right only
PositionModal_MinOnly(targetRect, modalRect, innerWidth) ==
    LET left2 == 2 * targetRect.left + targetRect.width - modalRect.width
        top == targetRect.top - modalRect.height - 8
        most2 == 2 * (innerWidth - modalRect.width - Padding)
    IN [left2 |-> IF left2 < most2 THEN left2 ELSE most2,
        top |-> IF top < Padding THEN targetRect.top + targetRect.height + 8
                ELSE top]

\* modal.style.left and modal.style.top of _positionAndShowModal.  The
\* widths are halved in the code: left2 is twice the left edge, so that
\* half pixels stay exact.  targetRect.bottom is top + height.
PositionModal(targetRect, modalRect, innerWidth) ==
    LET left2 == 2 * targetRect.left + targetRect.width - modalRect.width
        top == targetRect.top - modalRect.height - 8
        most2 == 2 * (innerWidth - modalRect.width - Padding)
        least2 == IF left2 < most2 THEN left2 ELSE most2
    IN [left2 |-> IF 2 * Padding > least2 THEN 2 * Padding ELSE least2,
        top |-> IF top < Padding THEN targetRect.top + targetRect.height + 8
                ELSE top]

\* _positionAndShowModal
PositionAndShowModal(m, w, content, geo) ==
    LET modal == NewElem(m.el)
        at == PositionModal(geo.targetRect, geo.modalRect, geo.innerWidth)
    IN [m EXCEPT !.el = MapPut(m.el, modal,
                               [kind |-> "modal", owner |-> w, content |-> content,
                                left2 |-> at.left2, top |-> at.top]),
                 !.bd = m.bd \cup {modal},
                 !.cm = modal]

\* _showCollaboratorModal / _showMoreModal
ShowModal(m, w, content, geo) ==
    PositionAndShowModal(HideCurrentModal(ClearHideModalTimeout(m), w), w, content, geo)

ApplyModal(w, after) ==
    \E m \in {after} :
       /\ timers' = m.tm
       /\ elem' = m.el
       /\ body' = m.bd
       /\ currentModal' = [currentModal EXCEPT ![w] = m.cm]
       /\ hideModalTimeout' = [hideModalTimeout EXCEPT ![w] = m.ht]

\* the pending timers of the widgets
WidgetTimers == Cardinality({i \in DOMAIN timers : timers[i].kind # "hideLabel"})
Modals(el) == {e \in DOMAIN el : el[e].kind = "modal"}
NoHover == [kind |-> "none"]

(***************************************************************************)
(* Widget life cycle and the awareness change notification.                 *)
(***************************************************************************)
\* what a re-render or a removal does to the pointer: an element that is
\* gone is no longer hovered
HoverAfterRender(w) ==
    IF hover.kind = "avatar" /\ hover.w = w THEN NoHover ELSE hover
HoverAfterRemoval(bd) ==
    IF hover.kind = "modal" /\ hover.id \notin bd THEN NoHover ELSE hover

\* the context.ready callback of _connectToAwareness
Connect(w, hasAwareness) ==
    /\ frameLeft = 0
    /\ ~ready[w]
    /\ ready' = [ready EXCEPT ![w] = TRUE]
    /\ IF hasAwareness
       THEN /\ wAwareness' = [wAwareness EXCEPT ![w] = TRUE]
            /\ observers' = observers \cup {Bind(w)}
       ELSE UNCHANGED <<wAwareness, observers>>
    /\ IF hasAwareness /\ w = "toolbar"
       THEN collaborators' = CollaboratorsFromStates(states)
       ELSE UNCHANGED collaborators
    /\ IF hasAwareness /\ w = "cell"
       THEN collaboratorsByCellId' = CellCollaboratorsFromStates(states)
       ELSE UNCHANGED collaboratorsByCellId
    /\ UNCHANGED <<states, labelVars, domVars, disposed, currentModal,
                   hideModalTimeout, roster, tbHidden, lastUserCellLocations,
                   indicatorElements, hover>>

\* _onAwarenessChange of the toolbar widget
ToolbarOnAwarenessChange(sts) ==
    LET cols == UpdateCollaboratorsFromAwareness(sts)
        r == RenderCollaborators(cols)
    IN /\ collaborators' = cols
       /\ roster' = r.roster
       /\ tbHidden' = r.hidden

\* _onAwarenessChange of the cell-awareness widget
CellOnAwarenessChange(sts) ==
    IF ~wAwareness["cell"]
    THEN UNCHANGED cwVars
    ELSE LET current == CurrentUserCellLocations(sts)
             byCell == UpdateCellCollaborators(sts)
         IN /\ lastUserCellLocations' = current
            /\ IF HasChanges(current, lastUserCellLocations)
               THEN /\ collaboratorsByCellId' = byCell
                    /\ indicatorElements' = RenderCellIndicators(byCell)
               ELSE UNCHANGED <<collaboratorsByCellId, indicatorElements>>

\* the state of client c changes and awareness emits 'change' to every
\* registered function
AwarenessChange(c, s) ==
    /\ frameLeft = 0
    /\ SetState(c, s) # states
    /\ states' = SetState(c, s)
    /\ rafQueue + ListenerSchedules({c}) <= MaxRaf
    /\ rafQueue' = rafQueue + ListenerSchedules({c})
    /\ IF Subscribed("toolbar")
       THEN ToolbarOnAwarenessChange(states')
       ELSE UNCHANGED tbVars
    /\ IF Subscribed("cell")
       THEN CellOnAwarenessChange(states')
       ELSE UNCHANGED cwVars
    /\ hover' = IF hover.kind = "avatar" /\
                   \/ hover.w = "toolbar" /\ Subscribed("toolbar")
                   \/ hover.w = "cell" /\ Subscribed("cell") /\ wAwareness["cell"]
                      /\ HasChanges(CurrentUserCellLocations(states'), lastUserCellLocations)
                THEN NoHover ELSE hover
    /\ UNCHANGED <<observers, plugin, labelElements, hideTimers, frameLeft, hostError>>
    /\ UNCHANGED <<domVars, wVars>>

\* the unsubscription of dispose(): off('change', this._onAwarenessChange.bind(this))
Unsubscribe(w) == IF wAwareness[w] THEN observers \ {Bind(w)} ELSE observers

\* "Clean up modal" of dispose()
DisposeModal(m, w) == HideCurrentModal(ClearHideModalTimeout(m), w)

\* dispose() of a widget
Dispose(w) ==
    /\ frameLeft = 0
    /\ ~disposed[w]
    /\ WidgetTimers < MaxTimers
    /\ observers' = Unsubscribe(w)
    /\ ApplyModal(w, DisposeModal(ModalState(w), w))
    /\ IF w = "cell"
       THEN /\ indicatorElements' = EmptyMap
            /\ collaboratorsByCellId' = EmptyMap
            /\ lastUserCellLocations' = EmptyMap
       ELSE UNCHANGED cwVars
    /\ disposed' = [disposed EXCEPT ![w] = TRUE]
    /\ hover' = HoverAfterRender(w)
    /\ UNCHANGED <<states, labelVars, wAwareness, ready, tbVars>>

(***************************************************************************)
(* Pointer events and the timers of the modal.                              *)
(***************************************************************************)
\* the avatars the pointer can enter: the icons of the toolbar (while the
\* widget is shown) and the avatars of the indicators attached to the cells
ToolbarTargets ==
    IF disposed["toolbar"] \/ tbHidden THEN {}
    ELSE {[kind |-> "avatar", w |-> "toolbar", cell |-> "", icon |-> roster[i]] :
            i \in DOMAIN roster}
CellTargets ==
    UNION {{[kind |-> "avatar", w |-> "cell", cell |-> cellId,
             icon |-> indicatorElements[cellId][i]] :
               i \in {j \in DOMAIN indicatorElements[cellId] :
                        indicatorElements[cellId][j].kind = "user"}} :
           cellId \in DOMAIN indicatorElements}

\* what the modal of an avatar shows
ModalContent(target) ==
    IF target.icon.kind = "user" THEN <<target.icon.collaborator>>
    ELSE HiddenCollaborators(collaborators)

\* mouseenter on an avatar: _showCollaboratorModal / _showMoreModal, with
\* the rectangles and the window width the handler measures
MouseEnterAvatarAt(target, geo) ==
    /\ frameLeft = 0
    /\ hover = NoHover
    /\ target \in ToolbarTargets \cup CellTargets
    /\ Cardinality(Modals(elem)) < MaxModals
    /\ WidgetTimers < MaxTimers
    /\ ApplyModal(target.w, ShowModal(ModalState(target.w), target.w,
                                      ModalContent(target), geo))
    /\ hover' = target
    /\ UNCHANGED <<awVars, labelVars, wAwareness, ready, disposed, tbVars, cwVars>>

\* mouseenter on an avatar in the middle of a wide window
MouseEnterAvatar(target) == MouseEnterAvatarAt(target, DefaultGeometry)

\* mouseleave on an avatar or on a modal: _scheduleHideModal
MouseLeave ==
    /\ frameLeft = 0
    /\ hover # NoHover
    /\ LET w == IF hover.kind = "avatar" THEN hover.w ELSE elem[hover.id].owner
       IN /\ WidgetTimers < MaxTimers
          /\ ApplyModal(w, ScheduleHideModal(ModalState(w), w))
    /\ hover' = NoHover
    /\ UNCHANGED <<awVars, labelVars, wAwareness, ready, disposed, tbVars, cwVars>>

\* mouseenter on a modal: _clearHideModalTimeout
MouseEnterModal(modal) ==
    /\ frameLeft = 0
    /\ hover = NoHover
    /\ modal \in Modals(elem) \cap body
    /\ ApplyModal(elem[modal].owner,
                  ClearHideModalTimeout(ModalState(elem[modal].owner)))
    /\ hover' = [kind |-> "modal", id |-> modal,
                 cancelled |-> hideModalTimeout[elem[modal].owner] \in TimerIds(timers)]
    /\ UNCHANGED <<awVars, labelVars, wAwareness, ready, disposed, tbVars, cwVars>>

\* the hide timer of a widget expires: _hideCurrentModal
HideModalExpire(i) ==
    /\ frameLeft = 0
    /\ MayExpire(i)
    /\ timers[i].kind = "hideModal"
    /\ LET w == timers[i].w
           m == [ModalState(w) EXCEPT !.tm = RemoveAt(timers, i)]
       IN ApplyModal(w, HideCurrentModal(m, w))
    /\ UNCHANGED <<awVars, labelVars, wAwareness, ready, disposed, tbVars, cwVars, hover>>

\* the removal timer of a widget expires
RemoveModalExpire(i) ==
    /\ frameLeft = 0
    /\ MayExpire(i)
    /\ timers[i].kind = "removeModal"
    /\ LET w == timers[i].w
           m == RemoveCurrentModal([ModalState(w) EXCEPT !.tm = RemoveAt(timers, i)])
       IN /\ ApplyModal(w, m)
          /\ hover' = HoverAfterRemoval(m.bd)
    /\ UNCHANGED <<awVars, labelVars, wAwareness, ready, disposed, tbVars, cwVars>>

(***************************************************************************)
(* Specifications.                                                          *)
(***************************************************************************)
vars == <<states, observers, plugin, labelElements, hideTimers, rafQueue,
          frameLeft, hostError, elem, body, timers, wAwareness, ready, disposed,
          currentModal, hideModalTimeout, collaborators, roster, tbHidden,
          collaboratorsByCellId, lastUserCellLocations, indicatorElements, hover>>

LocalState0 == [user |-> User("ann", "", "", ""), cursors |-> <<>>]

Init ==
    /\ states = [c \in {LocalClient} |-> LocalState0]
    /\ observers = {}
    /\ plugin = "none"
    /\ labelElements = EmptyMap
    /\ hideTimers = EmptyMap
    /\ rafQueue = 0
    /\ frameLeft = 0
    /\ hostError = FALSE
    /\ elem = EmptyMap
    /\ body = {}
    /\ timers = <<>>
    /\ wAwareness = [w \in Widgets |-> FALSE]
    /\ ready = [w \in Widgets |-> FALSE]
    /\ disposed = [w \in Widgets |-> FALSE]
    /\ currentModal = [w \in Widgets |-> 0]
    /\ hideModalTimeout = [w \in Widgets |-> 0]
    /\ collaborators = EmptyMap
    /\ roster = <<>>
    /\ tbHidden = TRUE
    /\ collaboratorsByCellId = EmptyMap
    /\ lastUserCellLocations = EmptyMap
    /\ indicatorElements = EmptyMap
    /\ hover = NoHover

\* the cursor-label plugin of one editor
NextLabel ==
    \/ \E lay \in Layouts : Construct(lay)
    \/ Destroy
    \/ \E u \in UpdateFlags : EditorUpdate(u[1], u[2], u[3], u[4])
    \/ BeginFrame
    \/ \E lay \in Layouts : RunPass(lay)
    \/ \E i \in DOMAIN timers : HideLabel(i)
    \/ \E c \in RemoteClients, s \in LabelStates : AwarenessChange(c, s)
    \/ \E s \in LocalStates : AwarenessChange(LocalClient, s)

SpecLabel == Init /\ [][NextLabel]_vars

\* the cursor-label plugin under awareness states with malformed cursors
FaultCursorArrays ==
    { <<Cur(AbsHead(YThis, 0))>>,
      <<Cur(MalformedHead)>>,
      <<Cur(AbsHead(YThis, 0)), Cur(MalformedHead)>> }
FaultStates == [user : LabelUsers, cursors : FaultCursorArrays] \cup {Absent}

NextFault ==
    \/ \E lay \in Layouts : Construct(lay)
    \/ Destroy
    \/ EditorUpdate(FALSE, TRUE, FALSE, TRUE)
    \/ BeginFrame
    \/ \E lay \in Layouts : RunPass(lay)
    \/ \E i \in DOMAIN timers : HideLabel(i)
    \/ \E c \in RemoteClients, s \in FaultStates : AwarenessChange(c, s)

SpecFault == Init /\ [][NextFault]_vars

\* the three surfaces over one awareness instance, without pointer events
ProjectionStates ==
    [user : LabelUsers,
     cursors : {<<Cur(AbsHead(YThis, 0))>>, <<Cur(AbsHead(YOther, 0))>>}] \cup {Absent}

\* the remote cursors of this specification are at offset 0: a pass depends
\* on the layout only through that offset
ProjectionLayouts == {{}, 0..DocLength}

Next ==
    \/ \E lay \in ProjectionLayouts : Construct(lay)
    \/ Destroy
    \/ BeginFrame
    \/ \E lay \in ProjectionLayouts : RunPass(lay)
    \/ \E i \in DOMAIN timers : HideLabel(i)
    \/ \E w \in Widgets : Connect(w, TRUE)
    \/ \E w \in Widgets : Dispose(w)
    \/ \E c \in RemoteClients, s \in ProjectionStates : AwarenessChange(c, s)
    \/ \E s \in LocalStates : AwarenessChange(LocalClient, s)

Spec == Init /\ [][Next]_vars

\* the two widgets with their modals, under pointer events
ModalClients == {2}
ModalStates ==
    [user : LabelUsers, cursors : {<<Cur(AbsHead(YThis, 0))>>}] \cup {Absent}

NextModal ==
    \/ \E w \in Widgets, a \in BOOLEAN : Connect(w, a)
    \/ \E w \in Widgets : Dispose(w)
    \/ \E c \in ModalClients, s \in ModalStates : AwarenessChange(c, s)
    \/ \E t \in ToolbarTargets \cup CellTargets : MouseEnterAvatar(t)
    \/ MouseLeave
    \/ \E e \in DOMAIN elem : MouseEnterModal(e)
    \/ \E i \in DOMAIN timers : HideModalExpire(i)
    \/ \E i \in DOMAIN timers : RemoveModalExpire(i)

SpecModal == Init /\ [][NextModal]_vars

\* the three surfaces under users that differ in the identity they carry:
\* client 2 changes its user, client 3 comes and goes as a second "Bob";
\* every position of the document has coordinates
ExplicitColor == "#123456"
IdentityUsers ==
    { NoUser,
      User("Bob", "", "", ""),
      User("Bob", "", "", ExplicitColor),
      User("Bob", "dee", "dee", ""),
      User("polygenelubricants", "", "", "") }
IdentityStates ==
    [user : IdentityUsers, cursors : {<<Cur(AbsHead(YThis, 0))>>}] \cup {Absent}
NamesakeStates ==
    [user : {User("Bob", "", "", "")},
     cursors : {<<Cur(AbsHead(YThis, 0))>>}] \cup {Absent}
FullLayout == 0..DocLength

NextIdentity ==
    \/ Construct(FullLayout)
    \/ BeginFrame
    \/ RunPass(FullLayout)
    \/ \E w \in Widgets : Connect(w, TRUE)
    \/ \E s \in IdentityStates : AwarenessChange(2, s)
    \/ \E s \in NamesakeStates : AwarenessChange(3, s)

SpecIdentity == Init /\ [][NextIdentity]_vars

\* the two widgets under four remote clients, so that an avatar stack
\* overflows: clients 2, 3 and 4 keep their users (client 2 moves between
\* the cells), client 5 also comes without a name or with a display name
\* (display_name or displayName) only, without cursor or with cursors in both cells; the pointer visits
\* the "+N" icon of the toolbar
RosterClients == 2..5
RosterCursorArrays(c) ==
    IF c = 2 THEN { <<Cur(AbsHead(YThis, 0))>>, <<Cur(AbsHead(YOther, 0))>> }
    ELSE IF c = 5
         THEN { <<>>, <<Cur(AbsHead(YThis, 0))>>,
                <<Cur(AbsHead(YThis, 0)), Cur(AbsHead(YOther, 0))>> }
         ELSE { <<Cur(AbsHead(YThis, 0))>> }
RosterUsers(c) ==
    IF c = 2 THEN {User("Ada Lovelace", "", "", "")}
    ELSE IF c = 3 THEN {User("Bob", "", "", "")}
    ELSE IF c = 4 THEN {User("ann", "", "", "")}
    ELSE {User("dee", "", "", ""), User("", "dee", "", ""),
          User("", "", "dee", ""), NoUser}
RosterStates(c) ==
    [user : RosterUsers(c), cursors : RosterCursorArrays(c)] \cup {Absent}
MoreTargets == {t \in ToolbarTargets : t.icon.kind = "more"}

NextRoster ==
    \/ \E w \in Widgets : Connect(w, TRUE)
    \/ \E c \in RosterClients : \E s \in RosterStates(c) : AwarenessChange(c, s)
    \/ \E t \in MoreTargets : MouseEnterAvatar(t)
    \/ MouseLeave
    \/ \E i \in DOMAIN timers : HideModalExpire(i)
    \/ \E i \in DOMAIN timers : RemoveModalExpire(i)

SpecRoster == Init /\ [][NextRoster]_vars

\* the two widgets under the pointer while a second collaborator comes,
\* goes, moves between the cells and changes its color: client 2 stays in
\* the first cell
HoverStates(c) ==
    IF c = 2
    THEN [user : {User("ann", "", "", "")},
          cursors : {<<Cur(AbsHead(YThis, 0))>>}] \cup {Absent}
    ELSE [user : {User("Bob", "", "", ""), User("Bob", "", "", ExplicitColor)},
          cursors : {<<Cur(AbsHead(YThis, 0))>>, <<Cur(AbsHead(YOther, 0))>>}]
            \cup {Absent}

NextHover ==
    \/ \E w \in Widgets : Connect(w, TRUE)
    \/ \E c \in {2, 3} : \E s \in HoverStates(c) : AwarenessChange(c, s)
    \/ \E t \in ToolbarTargets \cup CellTargets : MouseEnterAvatar(t)
    \/ MouseLeave
    \/ \E i \in DOMAIN timers : HideModalExpire(i)
    \/ \E i \in DOMAIN timers : RemoveModalExpire(i)

SpecHover == Init /\ [][NextHover]_vars

\* the cursor-label plugin and the cell-awareness widget under cursors they
\* must skip or clamp: a head that is missing, that no longer resolves, that
\* resolves into the other cell or beyond the end of the document, alone or
\* before a cursor that resolves into this editor; client 3 keeps one
\* resolvable cursor
StaleCursorArrays ==
    { <<Cur(AbsHead(YThis, 0))>>,
      <<Cur(NoHead)>>,
      <<Cur(StaleHead)>>,
      <<Cur(NoHead), Cur(AbsHead(YThis, 1))>>,
      <<Cur(StaleHead), Cur(AbsHead(YThis, 1))>>,
      <<Cur(AbsHead(YOther, 0))>>,
      <<Cur(AbsHead(YOther, 0)), Cur(AbsHead(YThis, 1))>>,
      <<Cur(AbsHead(YThis, DocLength + 1))>> }
StaleStates(c) ==
    IF c = 2
    THEN [user : {User("ann", "", "", "")}, cursors : StaleCursorArrays]
    ELSE [user : {User("Bob", "", "", "")},
          cursors : {<<Cur(AbsHead(YThis, 0))>>}] \cup {Absent}

NextStale ==
    \/ \E lay \in Layouts : Construct(lay)
    \/ BeginFrame
    \/ \E lay \in Layouts : RunPass(lay)
    \/ \E i \in DOMAIN timers : HideLabel(i)
    \/ Connect("cell", TRUE)
    \/ \E c \in {2, 3} : \E s \in StaleStates(c) : AwarenessChange(c, s)

SpecStale == Init /\ [][NextStale]_vars

\* the toolbar widget with one avatar, entered at different places of
\* windows of different widths: in the middle, at the top left corner, at
\* the right edge, in a window narrower than the modal, and with an avatar
\* of odd width
SpecGeometries ==
    { DefaultGeometry,
      Geometry(Rect(0, 0, 24, 24), Rect(0, 0, 100, 50), 1000),
      Geometry(Rect(980, 100, 24, 24), Rect(0, 0, 100, 50), 1000),
      Geometry(Rect(40, 100, 24, 24), Rect(0, 0, 100, 50), 100),
      Geometry(Rect(100, 58, 25, 24), Rect(0, 0, 100, 50), 1000) }

NextPosition ==
    \/ Connect("toolbar", TRUE)
    \/ \E s \in ModalStates : AwarenessChange(2, s)
    \/ \E t \in ToolbarTargets : \E geo \in SpecGeometries : MouseEnterAvatarAt(t, geo)
    \/ MouseLeave
    \/ \E e \in DOMAIN elem : MouseEnterModal(e)
    \/ \E i \in DOMAIN timers : HideModalExpire(i)
    \/ \E i \in DOMAIN timers : RemoveModalExpire(i)

SpecPosition == Init /\ [][NextPosition]_vars

\* the cursor-label plugin under a remote client that changes its name:
\* client 2 is "ann", gets the display name "dee" or loses its user object
\* (the label then reads "User 2"), with a cursor in this editor, without
\* cursor, or with a cursor that cannot be resolved; client 3 comes and goes
RenameUsers == {User("ann", "", "", ""), User("ann", "dee", "dee", ""), NoUser}
RenameCursorArrays ==
    { <<>>, <<Cur(AbsHead(YThis, 0))>>, <<Cur(MalformedHead)>> }
RenameStates(c) ==
    IF c = 2
    THEN [user : RenameUsers, cursors : RenameCursorArrays] \cup {Absent}
    ELSE [user : {User("Bob", "", "", "")},
          cursors : {<<Cur(AbsHead(YThis, 0))>>}] \cup {Absent}

NextRename ==
    \/ \E lay \in ProjectionLayouts : Construct(lay)
    \/ Destroy
    \/ EditorUpdate(FALSE, TRUE, FALSE, TRUE)
    \/ BeginFrame
    \/ \E lay \in ProjectionLayouts : RunPass(lay)
    \/ \E i \in DOMAIN timers : HideLabel(i)
    \/ \E c \in RemoteClients : \E s \in RenameStates(c) : AwarenessChange(c, s)

SpecRename == Init /\ [][NextRename]_vars

\* the two widgets under remote clients whose name is a single space or
\* has white space around its word, with a cursor in either cell or none
BlankUsers == {User(n, "", "", "") : n \in BlankNames \cup {"ann"}}
BlankStates ==
    [user : BlankUsers,
     cursors : {<<>>, <<Cur(AbsHead(YThis, 0))>>, <<Cur(AbsHead(YOther, 0))>>}]
       \cup {Absent}

NextBlank ==
    \/ \E w \in Widgets : Connect(w, TRUE)
    \/ \E c \in RemoteClients : \E s \in BlankStates : AwarenessChange(c, s)

SpecBlank == Init /\ [][NextBlank]_vars

(***************************************************************************)
(* Properties of the cursor-label plugin.                                   *)
(***************************************************************************)
\* the keys with a label element that is tracked and attached
TrackedKeys(le, bd) == {k \in DOMAIN le : le[k] \in bd}
\* the label elements attached to document.body, the pending hide timers
AttachedLabels == {e \in body : elem[e].kind = "label"}
PendingHideTimers == {i \in DOMAIN timers : timers[i].kind = "hideLabel"}

\* the cursors of client c whose head resolves into this editor's ytext
CursorsHere(c) ==
    {i \in DOMAIN states[c].cursors :
        /\ states[c].cursors[i].head \notin {NoHead, StaleHead, MalformedHead}
        /\ states[c].cursors[i].head.type = YThis}
\* the keys of the remote users with at least one such cursor
ResolvableKeys ==
    {UserKey(c, LabelUserName(states[c].user, c)) :
        c \in {d \in DOMAIN states : d # LocalClient /\ CursorsHere(d) # {}}}
\* the coordinate lookup gave coordinates for one of the cursors of key k
LookupSucceeded(k, lay) ==
    \E i \in CursorsHere(k[1]) :
        ClampPosition(states[k[1]].cursors[i].head.index, DocLength) \in lay

\* a step that is one reconciliation pass: the first one, of the
\* constructor, or an animation-frame callback
PassStep == frameLeft' = frameLeft - 1 \/ (plugin = "none" /\ plugin' # "none")

\* C1: after every reconciliation pass the keys with a tracked, attached
\* label are exactly the keys of the remote users with a cursor resolving
\* into this editor, except that a key whose coordinate lookup gave nothing
\* in the pass keeps the element it had (and gets none if it had none)
C1_OverlaySetEqualsResolvable ==
    [][PassStep =>
         \E lay \in Layouts :
            TrackedKeys(labelElements', body') =
               {k \in ResolvableKeys :
                   LookupSucceeded(k, lay) \/ k \in TrackedKeys(labelElements, body)}]_vars

\* C2: once destroy() has run, no label element of the plugin is attached
\* to document.body and no hide timer of the plugin is pending
C2_NothingLeftAfterDestroy ==
    plugin = "destroyed" => AttachedLabels = {} /\ PendingHideTimers = {}

\* C5: at most one hide timer is pending per key
C5_OneHideTimerPerKey ==
    \A i, j \in PendingHideTimers : timers[i].key = timers[j].key => i = j
\* C5 witness: the label of the only tracked key was rendered again while
\* its timer was pending (the new timer has another id than the first one),
\* and one timer is pending
C5_Witness_RenderedAgain ==
    /\ Cardinality(DOMAIN labelElements) = 1
    /\ \E k \in DOMAIN hideTimers : hideTimers[k] = 2 /\ labelElements[k] = 1
    /\ Cardinality(PendingHideTimers) = 1

\* C6: the triggers that arrive before an animation frame lead to exactly
\* one reconciliation pass in that frame
C6_OnePassPerFrame == frameLeft <= 1

(***************************************************************************)
(* Properties of teardown.                                                  *)
(***************************************************************************)
\* the modal elements of widget w attached to document.body, and the
\* pending timers widget w started
AttachedModals(w, el, bd) == {e \in Modals(el) \cap bd : el[e].owner = w}
TimersOf(w, tm) == {i \in DOMAIN tm : tm[i].kind # "hideLabel" /\ tm[i].w = w}

\* C3: after the teardown of a surface, an awareness change notification
\* does not reach the handler of that surface: it updates and renders
\* nothing in a disposed widget and requests no pass of a destroyed plugin
C3_NoHandlerAfterTeardown ==
    [][states' # states =>
         /\ plugin = "destroyed" => rafQueue' = rafQueue
         /\ disposed["toolbar"] => UNCHANGED tbVars
         /\ disposed["cell"] => UNCHANGED cwVars]_vars

\* C4: when dispose() of a widget returns, no modal of the widget is
\* attached, no timer of the widget is pending and the cell-awareness
\* widget has no indicator left
C4_NothingLeftAfterDispose ==
    [][\A w \in Widgets :
         ~disposed[w] /\ disposed'[w] =>
            /\ AttachedModals(w, elem', body') = {}
            /\ TimersOf(w, timers') = {}
            /\ w = "cell" => indicatorElements' = EmptyMap]_vars

(***************************************************************************)
(* Properties of the modal.                                                 *)
(***************************************************************************)
\* C7: at most one modal of a widget is attached to document.body
C7_OneModalPerWidget ==
    \A w \in Widgets : Cardinality(AttachedModals(w, elem, body)) <= 1

\* C8: a modal of the toolbar widget and a modal of the cell-awareness
\* widget are never attached at the same time
C8_OneModalPerPage ==
    AttachedModals("toolbar", elem, body) = {} \/ AttachedModals("cell", elem, body) = {}

(***************************************************************************)
(* Properties of the projection of awareness into the surfaces.             *)
(***************************************************************************)
\* the clients an avatar stack shows
StackClients(stack) ==
    {stack[i].collaborator.clientId :
        i \in {j \in DOMAIN stack : stack[j].kind = "user"}}
\* the clients the toolbar, the cells and the labels have an entry for
ToolbarClients == DOMAIN collaborators \cup StackClients(roster)
CellMapClients ==
    UNION {DOMAIN collaboratorsByCellId[cellId] : cellId \in DOMAIN collaboratorsByCellId}
IndicatorClients(ind) == UNION {StackClients(ind[cellId]) : cellId \in DOMAIN ind}
CellClients ==
    CellMapClients \cup IndicatorClients(indicatorElements)
       \cup DOMAIN lastUserCellLocations
LabelClients(le) == {k[1] : k \in DOMAIN le}

\* C9: no surface has an entry for the local client
C9_LocalClientNeverRendered ==
    LocalClient \notin ToolbarClients \cup CellClients \cup LabelClients(labelElements)
\* C9 witness: the local client has a named user and a cursor in this
\* editor, and all three surfaces show somebody
C9_Witness_LocalHasCursor ==
    /\ LocalClient \in DOMAIN states
    /\ CursorsHere(LocalClient) # {}
    /\ ToolbarName(states[LocalClient].user) # ""
    /\ StackClients(roster) # {}
    /\ IndicatorClients(indicatorElements) # {}
    /\ TrackedKeys(labelElements, body) # {}

\* C10: a pass that runs while client c is absent from getStates() leaves no
\* label of c tracked or attached and no hide timer of c pending or held;
\* the change notification by which c, shown in an indicator, leaves
\* getStates() leaves no entry of c in the cell-awareness widget
C10_AbsentClientRemoved ==
    [][\A c \in RemoteClients :
         /\ PassStep /\ c \notin DOMAIN states' =>
               /\ c \notin LabelClients(labelElements')
               /\ c \notin LabelClients(hideTimers')
               /\ \A k \in DOMAIN labelElements : k[1] = c => labelElements[k] \notin body'
               /\ \A i \in DOMAIN timers' :
                     timers'[i].kind = "hideLabel" => timers'[i].key[1] # c
         /\ c \in IndicatorClients(indicatorElements) /\ c \in DOMAIN states
              /\ c \notin DOMAIN states' =>
               /\ c \notin IndicatorClients(indicatorElements')
               /\ c \notin CellMapClients'
               /\ c \notin DOMAIN lastUserCellLocations']_vars
\* C10 witness: client 2 is absent; the label of client 3 is the second
\* element the active plugin created and the first one, of client 2, was
\* removed by a pass; the indicators show client 3 only
C10_Witness_ClientGone ==
    /\ plugin = "active" /\ frameLeft = 0
    /\ 2 \notin DOMAIN states
    /\ \E k \in DOMAIN labelElements : k[1] = 3 /\ labelElements[k] = 2
    /\ 1 \notin DOMAIN elem
    /\ IndicatorClients(indicatorElements) = {3}

(***************************************************************************)
(* Properties of the removal, the retention and the decay of labels.        *)
(***************************************************************************)
\* the key client c has in the current awareness states
CurrentKey(c) == UserKey(c, LabelUserName(states[c].user, c))

\* C11: a pass that runs while a connected remote client with a label has
\* no cursor resolving into this editor deletes the label from the
\* tracking map, detaches it and drops the hide timer of its key
C11_MovedAwayLabelRemoved ==
    [][PassStep =>
         \A c \in RemoteClients \cap DOMAIN states :
            CurrentKey(c) \in DOMAIN labelElements /\ CursorsHere(c) = {} =>
               /\ CurrentKey(c) \notin DOMAIN labelElements'
               /\ labelElements[CurrentKey(c)] \notin body'
               /\ CurrentKey(c) \notin DOMAIN hideTimers'
               /\ \A i \in DOMAIN timers' :
                     timers'[i].kind = "hideLabel" => timers'[i].key # CurrentKey(c)]_vars

\* a pass can run in this state: the first one, of the constructor, or a
\* callback of the running animation frame
PassEnabled == frameLeft > 0 \/ (plugin = "none" /\ frameLeft = 0)

\* what is known of the label of key k: its element with position and
\* visibility, whether it is attached, its timer handle, its pending timer
LabelView(k, le, ht, el, bd, tm) ==
    [element |-> IF k \in DOMAIN le THEN <<le[k], el[le[k]], le[k] \in bd>> ELSE <<>>,
     handle |-> IF k \in DOMAIN ht THEN <<ht[k]>> ELSE <<>>,
     pending |-> {tm[i].id : i \in {j \in DOMAIN tm :
                                      tm[j].kind = "hideLabel" /\ tm[j].key = k}}]

\* C12: a pass in which the coordinate lookup gives nothing for the cursors
\* of a key leaves the label of the key as it was (same element, position,
\* visibility, attachment and hide timer) and creates none if there was
\* none: so it is for the pass of every state in which one can run, with
\* every layout
C12_NoCoordsKeepsLabel ==
    PassEnabled =>
       \A lay \in Layouts :
          \A st \in {UpdateOverlayLabels(lay)} :
             \A c \in RemoteClients \cap DOMAIN states :
                CursorsHere(c) # {} /\ ~LookupSucceeded(CurrentKey(c), lay) =>
                   LabelView(CurrentKey(c), st.le, st.ht, st.el, st.bd, st.tm)
                      = LabelView(CurrentKey(c), labelElements, hideTimers, elem, body, timers)
\* C12 witness: every requested pass has run, the only cursor of client 2
\* is at offset 0, and its label is still where an earlier pass put it, at
\* offset 1: the last pass had no coordinates for offset 0
C12_Witness_LabelRetained ==
    /\ plugin = "active" /\ frameLeft = 0 /\ rafQueue = 0
    /\ 2 \in DOMAIN states
    /\ states[2].cursors = <<Cur(AbsHead(YThis, 0))>>
    /\ CurrentKey(2) \in DOMAIN labelElements
    /\ elem[labelElements[CurrentKey(2)]].left = 1
    /\ labelElements[CurrentKey(2)] \in body

\* the step is the expiry of the hide timer at place i
HideStep(i) ==
    /\ frameLeft = 0 /\ frameLeft' = 0 /\ plugin' = plugin
    /\ i \in DOMAIN timers
    /\ timers[i].kind = "hideLabel"
    /\ timers' = RemoveAt(timers, i)

\* the label of key k is tracked and hidden
HiddenLabel(k) == k \in DOMAIN labelElements /\ ~elem[labelElements[k]].visible

\* C13: the expiry of the hide timer of a key only hides the label: the
\* element stays tracked and attached and the timer entry goes; and a pass
\* that finds coordinates for a cursor of a key with a hidden label shows
\* the same element again
C13_ExpiryHidesRenderShows ==
    /\ [][\A i \in DOMAIN timers :
            HideStep(i) =>
               LET k == timers[i].key
               IN /\ labelElements' = labelElements
                  /\ body' = body
                  /\ k \notin DOMAIN hideTimers'
                  /\ k \in DOMAIN labelElements =>
                        /\ labelElements[k] \in body'
                        /\ ~elem'[labelElements[k]].visible]_vars
    /\ [](PassEnabled =>
            \A lay \in Layouts :
               \A st \in {UpdateOverlayLabels(lay)} :
                  \A c \in RemoteClients \cap DOMAIN states :
                     HiddenLabel(CurrentKey(c)) /\ LookupSucceeded(CurrentKey(c), lay) =>
                        /\ CurrentKey(c) \in DOMAIN st.le
                        /\ st.le[CurrentKey(c)] = labelElements[CurrentKey(c)]
                        /\ st.le[CurrentKey(c)] \in st.bd
                        /\ st.el[st.le[CurrentKey(c)]].visible)
\* C13 witness: the timer of the label of client 2 has expired (the label
\* is hidden, attached and tracked, its key has no timer entry) and a
\* pass is about to run while client 2 has a cursor in this editor
C13_Witness_HiddenBeforePass ==
    /\ plugin = "active" /\ frameLeft > 0
    /\ 2 \in DOMAIN states /\ CursorsHere(2) # {}
    /\ HiddenLabel(CurrentKey(2))
    /\ labelElements[CurrentKey(2)] \in body
    /\ CurrentKey(2) \notin DOMAIN hideTimers

\* the ids of the pending hide timers of key k
HideTimersOf(k, tm) ==
    {tm[i].id : i \in {j \in DOMAIN tm : tm[j].kind = "hideLabel" /\ tm[j].key = k}}

\* C14: a visible label is hidden only by the timer of its last render:
\* every pending hide timer is the one its key's entry of hideTimers
\* names, every visible label has such a timer pending, and a pass that
\* shows the label of a key leaves, for that key, exactly one pending
\* timer, which the pass itself has scheduled
C14_NoEarlierTimerHides ==
    /\ \A i \in PendingHideTimers :
          /\ timers[i].key \in DOMAIN hideTimers
          /\ hideTimers[timers[i].key] = timers[i].id
    /\ \A k \in DOMAIN labelElements :
          elem[labelElements[k]].visible =>
             k \in DOMAIN hideTimers /\ HideTimersOf(k, timers) = {hideTimers[k]}
    /\ PassEnabled =>
          \A lay \in Layouts :
             \A st \in {UpdateOverlayLabels(lay)} :
                \A c \in RemoteClients \cap DOMAIN states :
                   LookupSucceeded(CurrentKey(c), lay) =>
                      /\ st.el[st.le[CurrentKey(c)]].visible
                      /\ HideTimersOf(CurrentKey(c), st.tm) = {st.ht[CurrentKey(c)]}
                      /\ st.ht[CurrentKey(c)] \notin TimerIds(timers)
\* C14 witness: the label of client 2 was shown while the timer of an
\* earlier render of it was pending (its handle is the second id, its
\* element the first), it is visible and only the later timer is pending
C14_Witness_ShownAgainVisible ==
    /\ plugin = "active" /\ frameLeft = 0
    /\ 2 \in DOMAIN states
    /\ CurrentKey(2) \in DOMAIN labelElements
    /\ labelElements[CurrentKey(2)] = 1
    /\ elem[1].visible
    /\ CurrentKey(2) \in DOMAIN hideTimers /\ hideTimers[CurrentKey(2)] = 2
    /\ TimerIds(timers) = {2}
    /\ DOMAIN labelElements = {CurrentKey(2)}

(***************************************************************************)
(* Properties of the modal hover and of repeated teardown.                  *)
(***************************************************************************)
\* C15: a modal the pointer entered while a hide was pending (the entry
\* cancelled it) stays attached to document.body while the pointer is over
\* it and its widget is not disposed
C15_HoveredModalStays ==
    [][hover.kind = "modal" /\ hover.cancelled /\ ~disposed'[elem[hover.id].owner]
          => hover.id \in body']_vars

\* C16: a second teardown changes nothing: destroy() applied to the state
\* destroy() leaves, and the modal clean-up of dispose() applied to the state
\* dispose() leaves, give that same state, from every reachable state
C16_TeardownIdempotent ==
    /\ \A r \in {DestroyResult(PluginState)} : DestroyResult(r) = r
    /\ \A w \in Widgets :
          \A r \in {DisposeModal(ModalState(w), w)} : DisposeModal(r, w) = r

\* C17: no exception of a reconciliation pass leaves the plugin: none
\* propagates out of the constructor or out of an animation-frame callback
C17_PassExceptionsCaught == ~hostError

(***************************************************************************)
(* Properties of the names and the colors the surfaces show.                *)
(***************************************************************************)
\* the user carries no name under any of the fields the surfaces read
Unnamed(user) == user.name = "" /\ user.display_name = "" /\ user.displayName = ""
\* the entries the cell-awareness widget holds for client c
CellEntries(byCell, c) ==
    {byCell[cellId][c] : cellId \in {x \in DOMAIN byCell : c \in DOMAIN byCell[x]}}

\* C18: for a remote client in getStates() whose user has no name and no
\* display name, a change notification the toolbar handles leaves a roster
\* entry named "User {clientId}", one the cell-awareness widget handles leaves
\* a cell entry named "User {clientId}", and a pass leaves no label of it
C18_UnnamedClientFallback ==
    [][\A c \in RemoteClients :
         c \in DOMAIN states' /\ Unnamed(states'[c].user) =>
            /\ states' # states /\ Subscribed("toolbar") =>
                  /\ c \in DOMAIN collaborators'
                  /\ collaborators'[c].name = ClientName(c)
                  /\ c \in StackClients(roster')
            /\ states' # states /\ Subscribed("cell") =>
                  /\ CellEntries(collaboratorsByCellId', c) # {}
                  /\ \A e \in CellEntries(collaboratorsByCellId', c) :
                        e.name = ClientName(c)
                  /\ c \in IndicatorClients(indicatorElements')
            /\ PassStep => c \notin LabelClients(labelElements')]_vars

\* the color the surfaces are to show for a user with a name: the explicit
\* user color, else the palette color of the name
ExpectedColor(user) ==
    IF user.color # "" THEN user.color ELSE GenerateUserColor(user.name)
\* the colors of the entries the surfaces hold for client c
ToolbarShown(coll, c) == {coll[x].color : x \in {c} \cap DOMAIN coll}
CellShown(byCell, c) == {e.color : e \in CellEntries(byCell, c)}
LabelShown(le, el, c) == {el[le[k]].color : k \in {x \in DOMAIN le : x[1] = c}}

\* C19: for a remote client in getStates() whose user has a name, the entries
\* a change notification leaves in the toolbar and in the cell-awareness
\* widget and the labels a pass leaves all carry the explicit user color if
\* there is one and the palette color of the name otherwise
C19_SameColorOnEverySurface ==
    [][\A c \in RemoteClients :
         c \in DOMAIN states' /\ states'[c].user.name # "" =>
            /\ states' # states /\ Subscribed("toolbar") =>
                  ToolbarShown(collaborators', c) \subseteq {ExpectedColor(states'[c].user)}
            /\ states' # states /\ Subscribed("cell") =>
                  CellShown(collaboratorsByCellId', c) \subseteq {ExpectedColor(states'[c].user)}
            /\ PassStep =>
                  LabelShown(labelElements', elem', c) \subseteq {ExpectedColor(states'[c].user)}]_vars

\* the claimed hash on the 16-bit halves: h := 31 * h + charCode, wrapped to
\* 32 bits, from h = 0
ClaimedStep(h, char) ==
    LET lo == 31 * h[2] + char
    IN <<(31 * h[1] + lo \div Half) % Half, lo % Half>>
RECURSIVE ClaimedHash(_, _)
ClaimedHash(codes, n) ==
    IF n = 0 THEN Int32Zero
    ELSE CHOOSE r \in {ClaimedStep(h, codes[n]) : h \in {ClaimedHash(codes, n - 1)}} : TRUE
\* |h| mod 15 for the signed reading of h: 2^16 and 2^32 leave remainder 1,
\* so the unsigned value u leaves (hi + lo) mod 15 and 2^32 - u leaves
\* (1 - u) mod 15
ClaimedIndex(h) ==
    LET u == ((h[1] % 15) + (h[2] % 15)) % 15
    IN IF h[1] >= SignHalf THEN (16 - u) % 15 ELSE u
ClaimedColor(codes) == ToolbarColors[ClaimedIndex(ClaimedHash(codes, Len(codes))) + 1]

\* the names the pure function is checked on: every sequence of at most
\* MaxNameLen code units out of CodeUnits, and the names of the users
MaxNameLen == 3
CodeUnits == {0, 98, 65535}
CodeSequences ==
    UNION {[1..n -> CodeUnits] : n \in 0..MaxNameLen}
       \cup {CharCodes(n) : n \in {"", "ann", "Bob", "dee", "polygenelubricants"}}

\* both copies of generateUserColor agree with the claimed function on codes
AgreesOn(codes) ==
    /\ HashFrom(Int32Zero, codes) = ClaimedHash(codes, Len(codes))
    /\ GenerateUserColorOf(codes) = ClaimedColor(codes)
    /\ CellGenerateUserColorOf(codes) = GenerateUserColorOf(codes)
    /\ GenerateUserColorOf(codes) # "undefined"
PureOnAllNames ==
    /\ Len(ToolbarColors) = 15 /\ CellColors = ToolbarColors
    /\ \A codes \in CodeSequences : AgreesOn(codes)

\* the entries the toolbar and the cell-awareness widget hold
ShownEntries ==
    {collaborators[c] : c \in DOMAIN collaborators}
       \cup UNION {CellEntries(collaboratorsByCellId, c) : c \in CellMapClients}

\* C20: generateUserColor returns palette[|h| mod 15] of the 15 colors, h
\* being the claimed 31-multiplier hash wrapped to 32 bits, for every name
\* (the empty one and the one of hash -2^31 included), in both copies; every
\* entry of the toolbar and of the cells whose color was derived carries that
\* color of its name, so entries of the same name carry the same color
C20_GenerateUserColorPure ==
    /\ PureOnAllNames
    /\ \A e \in ShownEntries :
          e.color # ExplicitColor => e.color = ClaimedColor(CharCodes(e.name))
    /\ \A e1, e2 \in ShownEntries :
          e1.name = e2.name /\ e1.color # ExplicitColor /\ e2.color # ExplicitColor
             => e1.color = e2.color
\* C20 witness (scenario D): the toolbar shows clients 2 and 3 as two "Bob"s
\* of one derived color while a cell still shows client 2 under the name of
\* hash -2^31 in the color derived from it
C20_Witness_TwoBobs ==
    /\ {2, 3} \subseteq DOMAIN collaborators
    /\ collaborators[2].name = "Bob" /\ collaborators[3].name = "Bob"
    /\ collaborators[2].color = "#009688" /\ collaborators[3].color = "#009688"
    /\ \E e \in CellEntries(collaboratorsByCellId, 2) :
          e.name = "polygenelubricants" /\ e.color = "#E91E63"
    /\ HashFrom(Int32Zero, CharCodes("polygenelubricants")) = <<SignHalf, 0>>

(***************************************************************************)
(* Properties of the initials and of the avatar stacks.                     *)
(***************************************************************************)
\* the claimed initials of a name that is empty or has a word: "??", the
\* first two characters of a single word, or the first characters of the
\* first and of the last word, in upper case
ClaimedUpper(code) == IF code >= 97 /\ code <= 122 THEN code - 32 ELSE code
ClaimedInitials(codes) ==
    LET solid == {i \in DOMAIN codes : codes[i] \notin WhiteSpace}
        starts == {i \in solid : i - 1 \notin solid}
        first == Min(solid)
    IN IF codes = <<>> THEN <<63, 63>>
       ELSE IF Cardinality(starts) = 1
            THEN IF first + 1 \in solid
                 THEN <<ClaimedUpper(codes[first]), ClaimedUpper(codes[first + 1])>>
                 ELSE <<ClaimedUpper(codes[first])>>
            ELSE <<ClaimedUpper(codes[first]), ClaimedUpper(codes[Max(starts)])>>

\* the names the function is checked on: every sequence of at most
\* MaxNameLen code units out of InitialUnits that is empty or has a word,
\* and the names of the users
InitialUnits == {9, 32, 76, 97}
InitialsInputs ==
    {codes \in UNION {[1..n -> InitialUnits] : n \in 0..MaxNameLen} :
        codes = <<>> \/ \E i \in DOMAIN codes : codes[i] \notin WhiteSpace}
       \cup {CharCodes(n) : n \in KnownNames}
InitialsOnAllNames ==
    \A codes \in InitialsInputs :
       /\ GenerateInitialsOf(codes) = ClaimedInitials(codes)
       /\ CellGenerateInitialsOf(codes) = ClaimedInitials(codes)

\* C21: generateInitials, in both copies, returns "??" for the empty name,
\* the first two characters of a single-word name and the first characters
\* of the first and the last word otherwise, in upper case ("Ada Lovelace"
\* gives "AL"); every entry of the toolbar and of the cells carries these
\* initials of its name
C21_GenerateInitials ==
    /\ InitialsOnAllNames
    /\ GenerateInitials("Ada Lovelace") = <<65, 76>>
    /\ GenerateInitials("") = <<63, 63>>
    /\ \A e \in ShownEntries : e.initials = ClaimedInitials(CharCodes(e.name))
\* C21 witness (scenario A): "Ada Lovelace" is the only collaborator of the
\* toolbar, shown as one avatar with the initials "AL"
C21_Witness_AdaLovelace ==
    /\ DOMAIN collaborators = {2}
    /\ collaborators[2].name = "Ada Lovelace"
    /\ collaborators[2].initials = <<65, 76>>
    /\ Len(roster) = 1 /\ roster[1].kind = "user"
    /\ roster[1].collaborator.initials = <<65, 76>>
    /\ ~tbHidden

(***************************************************************************)
(* Properties of the cursors a pass and the cell widget look at.            *)
(***************************************************************************)
\* the offsets a pass hands to view.coordsAtPos for client c: the clamped
\* index of every cursor of c whose head resolves into this editor
LookupOffsets(c) ==
    {ClampPosition(states[c].cursors[i].head.index, DocLength) :
        i \in {j \in DOMAIN states[c].cursors :
                 /\ states[c].cursors[j].head \notin {NoHead, StaleHead, MalformedHead}
                 /\ states[c].cursors[j].head.type = YThis}}
\* the label elements
Labels(el) == {e \in DOMAIN el : el[e].kind = "label"}

\* C22: the clamp maps an index below 0 to 0, one above the document length
\* to the document length (500 with length 100 to 100) and leaves an index
\* in range unchanged; every offset a pass looks up, and so the offset every
\* label is placed at, lies in 0..DocLength, and a pass over a document that
\* is laid out everywhere places the label of a cursor beyond the end at the
\* document length
C22_LookupOffsetClamped ==
    /\ \A len \in 0..(DocLength + 1) : \A index \in (0 - 2)..(len + 2) :
          /\ ClampPosition(index, len) \in 0..len
          /\ index < 0 => ClampPosition(index, len) = 0
          /\ index > len => ClampPosition(index, len) = len
          /\ index \in 0..len => ClampPosition(index, len) = index
    /\ ClampPosition(500, 100) = 100
    /\ \A c \in DOMAIN states : ~IsOwnClient(c) => LookupOffsets(c) \subseteq 0..DocLength
    /\ \A e \in Labels(elem) : elem[e].left \in 0..DocLength
    /\ PassEnabled /\ ~PassThrows =>
          \A st \in {UpdateOverlayLabels(FullLayout)} :
             \A c \in RemoteClients \cap DOMAIN states :
                states[c].cursors = <<Cur(AbsHead(YThis, DocLength + 1))>> =>
                   /\ CurrentKey(c) \in DOMAIN st.le
                   /\ st.el[st.le[CurrentKey(c)]].left = DocLength
\* C22 witness: the only cursor of client 2 resolves beyond the end of the
\* document and the label of client 2 is shown at the document length
C22_Witness_BeyondEnd ==
    /\ plugin = "active" /\ frameLeft = 0
    /\ 2 \in DOMAIN states
    /\ states[2].cursors = <<Cur(AbsHead(YThis, DocLength + 1))>>
    /\ CurrentKey(2) \in DOMAIN labelElements
    /\ elem[labelElements[CurrentKey(2)]].left = DocLength
    /\ elem[labelElements[CurrentKey(2)]].visible

\* the avatar-stack rule: stack shows the first min(n, 3) of the n
\* collaborators cols, in their order, and after them a "+N" icon with
\* N = n - 3 if and only if n > 3
StackRule(cols, stack) ==
    LET ids == SortedSeq(DOMAIN cols)
        n == Len(ids)
        shown == IF n < 3 THEN n ELSE 3
        users == {i \in DOMAIN stack : stack[i].kind = "user"}
        more == {i \in DOMAIN stack : stack[i].kind = "more"}
    IN /\ users = 1..shown
       /\ \A i \in users : stack[i].collaborator = cols[ids[i]]
       /\ more # {} <=> n > 3
       /\ \A i \in more : i = shown + 1 /\ stack[i].count = n - 3
       /\ DOMAIN stack = users \cup more
\* the collaborators the icons of a stack show
VisibleCollaborators(stack) ==
    {stack[i].collaborator : i \in {j \in DOMAIN stack : stack[j].kind = "user"}}

\* C23: the roster a change notification leaves in the toolbar follows the
\* avatar-stack rule for the collaborators of the widget, and so does every
\* indicator the cell-awareness widget renders for the collaborators of its
\* cell; the modal shown for the "+N" icon of the toolbar lists every
\* collaborator that has no icon, once, and no other
C23_AvatarStackOverflow ==
    [][/\ states' # states /\ Subscribed("toolbar") => StackRule(collaborators', roster')
       /\ indicatorElements' # indicatorElements =>
             \A cellId \in DOMAIN indicatorElements' :
                /\ cellId \in DOMAIN collaboratorsByCellId'
                /\ StackRule(collaboratorsByCellId'[cellId], indicatorElements'[cellId])
       /\ hover = NoHover /\ hover' # NoHover /\ hover'.kind = "avatar"
             /\ hover'.icon.kind = "more" =>
             LET content == elem'[currentModal'["toolbar"]].content
             IN /\ Range(content) = Range(collaborators) \ VisibleCollaborators(roster)
                /\ Len(content) = Cardinality(Range(content))]_vars
\* C23 witness: four collaborators; the toolbar and the indicator of the
\* first cell show three avatars and "+1", and the modal of the toolbar's
\* "+1" icon, under the pointer's icon, lists the fourth collaborator
C23_Witness_FourCollaborators ==
    /\ DOMAIN collaborators = 2..5
    /\ Len(roster) = 4 /\ roster[4] = [kind |-> "more", count |-> 1]
    /\ "cell1" \in DOMAIN indicatorElements
    /\ Len(indicatorElements["cell1"]) = 4
    /\ indicatorElements["cell1"][4] = [kind |-> "more", count |-> 1]
    /\ hover # NoHover /\ hover.kind = "avatar" /\ hover.icon.kind = "more"
    /\ currentModal["toolbar"] \in body
    /\ elem[currentModal["toolbar"]].content = <<collaborators[5]>>

\* the remote clients of getStates() for which the toolbar finds a user name
\* (user.name, or user.displayName in its place)
ToolbarNamed(sts) ==
    {c \in DOMAIN sts : c # LocalClient /\ ToolbarName(sts[c].user) # ""}
\* the number of collaborators a stack stands for: its avatars and the count
\* of its "+N" icon
StackSize(stack) ==
    Cardinality({i \in DOMAIN stack : stack[i].kind = "user"})
       + (IF \E i \in DOMAIN stack : stack[i].kind = "more"
          THEN stack[Len(stack)].count ELSE 0)

\* C24: a change notification the toolbar handles leaves one collaborator per
\* remote client of getStates() that has a user name, wherever its cursors
\* are, each under its own clientId; the rendered roster stands for as many,
\* its avatars showing different ones of them; and the widget is hidden if
\* and only if there is none
C24_RosterMatchesNamedClients ==
    [][states' # states /\ Subscribed("toolbar") =>
          /\ DOMAIN collaborators' = ToolbarNamed(states')
          /\ \A c \in DOMAIN collaborators' : collaborators'[c].clientId = c
          /\ StackClients(roster') \subseteq ToolbarNamed(states')
          /\ StackSize(roster') = Cardinality(ToolbarNamed(states'))
          /\ Cardinality(StackClients(roster')) =
                Cardinality({i \in DOMAIN roster' : roster'[i].kind = "user"})
          /\ tbHidden' <=> ToolbarNamed(states') = {}]_vars
\* C24 witness: client 5, named and without any cursor, is the only remote
\* client and the toolbar, shown, has its avatar
C24_Witness_NamedWithoutCursor ==
    /\ DOMAIN states = {LocalClient, 5}
    /\ states[5].user.name = "dee" /\ states[5].cursors = <<>>
    /\ DOMAIN collaborators = {5}
    /\ StackClients(roster) = {5}
    /\ ~tbHidden

(***************************************************************************)
(* Properties of the reconciliation the notifications and updates request.  *)
(***************************************************************************)
\* C25: every change of getStates() that is notified leaves the toolbar with
\* the collaborators and the roster derived from the new states, leaves the
\* cell-awareness widget with the cell collaborators and the indicators
\* derived from them, and makes the subscribed plugin request a pass; every
\* editor update with a document, selection or viewport change requests one
C25_EveryNotificationReconciles ==
    [][/\ states' # states =>
             /\ Subscribed("toolbar") =>
                   /\ collaborators' = UpdateCollaboratorsFromAwareness(states')
                   /\ roster' = RenderCollaborators(collaborators').roster
             /\ Subscribed("cell") =>
                   /\ collaboratorsByCellId' = UpdateCellCollaborators(states')
                   /\ indicatorElements' = RenderCellIndicators(collaboratorsByCellId')
             /\ PluginListener \in observers => rafQueue' = rafQueue + 1
       /\ \A u \in UpdateFlags :
             (u[1] \/ u[2] \/ u[3]) /\ EditorUpdate(u[1], u[2], u[3], u[4])
                => rafQueue' = rafQueue + 1]_vars

(***************************************************************************)
(* Properties of the elements a refresh keeps.                              *)
(***************************************************************************)
\* the avatar the pointer is over belongs to a collaborator that still has
\* an avatar on that surface (in that cell) after the step
AvatarStaysActive ==
    /\ hover.kind = "avatar" /\ hover.icon.kind = "user"
    /\ IF hover.w = "toolbar"
       THEN hover.icon.collaborator.clientId \in StackClients(roster')
       ELSE /\ hover.cell \in DOMAIN indicatorElements'
            /\ hover.icon.collaborator.clientId
                  \in StackClients(indicatorElements'[hover.cell])
\* the pointer is still over the avatar of that collaborator after the step
AvatarKept ==
    /\ hover'.kind = "avatar"
    /\ hover'.w = hover.w /\ hover'.cell = hover.cell
    /\ hover'.icon.kind = "user"
    /\ hover'.icon.collaborator.clientId = hover.icon.collaborator.clientId

\* C26: a step keeps the element of every key that stays active: a label key
\* tracked before and after has the same label element, and when an
\* awareness change refreshes the widgets, an avatar under the pointer whose
\* collaborator still has an avatar on that surface is still the element
\* under the pointer
C26_RefreshKeepsElements ==
    [][/\ \A k \in DOMAIN labelElements \cap DOMAIN labelElements' :
             labelElements'[k] = labelElements[k]
       /\ states' # states /\ AvatarStaysActive => AvatarKept]_vars

(***************************************************************************)
(* Properties of the cursors a pass retains.                                *)
(***************************************************************************)
\* the keys of client c that have a label element
KeysOf(c, le) == {k \in DOMAIN le : k[1] = c}

\* C27: after a pass every remote client has at most one label, and the
\* label of a client with cursors in this editor is placed at the offset of
\* the first of them in the cursors array, when that offset has coordinates
C27_FirstCursorWins ==
    PassEnabled /\ ~PassThrows =>
       \A lay \in Layouts : \A st \in {UpdateOverlayLabels(lay)} :
          \A c \in RemoteClients \cap DOMAIN states :
             /\ Cardinality(KeysOf(c, st.le)) <= 1
             /\ CursorsHere(c) # {} =>
                   \A first \in {Min(CursorsHere(c))} :
                      \A position \in {ClampPosition(states[c].cursors[first].head.index,
                                                     DocLength)} :
                         position \in lay =>
                            /\ CurrentKey(c) \in DOMAIN st.le
                            /\ st.el[st.le[CurrentKey(c)]].left = position

\* the cursors of client c whose head resolves into another container
CursorsElsewhere(c) ==
    {i \in DOMAIN states[c].cursors :
        /\ states[c].cursors[i].head \notin {NoHead, StaleHead, MalformedHead}
        /\ states[c].cursors[i].head.type # YThis}
\* the shared text of a cell of the notebook
TextOfCell(cellId) == IF cellId = "cell1" THEN YThis ELSE YOther
\* the plugin's maps and the DOM as a pass finds them
BeforePass == [le |-> labelElements, ht |-> hideTimers, el |-> elem,
               bd |-> body, tm |-> timers]

\* C28: the loop body of a pass leaves everything as it is for a cursor whose
\* head resolves into another container; a pass leaves the label of a client
\* whose cursors all resolve elsewhere as it was (element, position,
\* visibility, attachment, hide timer) and creates none; the cell-awareness
\* widget, deriving its collaborators from the awareness states, records a
\* client under a cell only if a cursor of the client resolves into that
\* cell's text
C28_ContainerScoping ==
    /\ \A c \in RemoteClients \cap DOMAIN states : \A i \in CursorsElsewhere(c) :
          \A lay \in Layouts :
             RenderCursor(BeforePass, CurrentKey(c), LabelUserName(states[c].user, c),
                          LabelUserColor(states[c].user), states[c].cursors[i], lay)
                = BeforePass
    /\ PassEnabled /\ ~PassThrows =>
          \A lay \in Layouts : \A st \in {UpdateOverlayLabels(lay)} :
             \A c \in RemoteClients \cap DOMAIN states :
                CursorsElsewhere(c) # {} /\ CursorsHere(c) = {} =>
                   LabelView(CurrentKey(c), st.le, st.ht, st.el, st.bd, st.tm)
                      = LabelView(CurrentKey(c), labelElements, hideTimers,
                                  elem, body, timers)
    /\ \A byCell \in {UpdateCellCollaborators(states)} :
          wAwareness["cell"] =>
             \A cellId \in DOMAIN byCell : \A c \in DOMAIN byCell[cellId] :
                /\ c \in DOMAIN states
                /\ \E i \in DOMAIN states[c].cursors :
                      /\ states[c].cursors[i].head \notin {NoHead, StaleHead, MalformedHead}
                      /\ states[c].cursors[i].head.type = TextOfCell(cellId)
\* C28 witness: client 2 got a label while in this editor, moved to the other
\* cell, the pass the move requested has run and the label is still there;
\* the cell-awareness widget has client 2 under the other cell only
C28_Witness_MovedToOtherCell ==
    /\ plugin = "active" /\ frameLeft = 0 /\ rafQueue = 0
    /\ 2 \in DOMAIN states
    /\ states[2].cursors = <<Cur(AbsHead(YOther, 0))>>
    /\ CurrentKey(2) \in DOMAIN labelElements
    /\ Subscribed("cell")
    /\ DOMAIN collaboratorsByCellId = {"cell2"}
    /\ 2 \in DOMAIN collaboratorsByCellId["cell2"]

\* the cursor has a head and the head resolves
Resolves(cursor) == cursor.head \notin {NoHead, StaleHead}
\* the cursors of client c that a pass can place: in this editor, at an
\* offset with coordinates
PlaceableCursors(c, lay) ==
    {i \in CursorsHere(c) :
        ClampPosition(states[c].cursors[i].head.index, DocLength) \in lay}

\* C29: no exception leaves a pass over cursors with a missing or stale
\* head; the loop body leaves everything as it is for such a cursor; the
\* cursors of a client have the effect of its resolving cursors alone; after
\* a pass every client with a cursor the pass can place has its label shown
\* at the offset of such a cursor; and the cell-awareness widget derives the
\* cells of a client from its resolving cursors alone
C29_UnresolvedCursorSkipped ==
    /\ ~hostError
    /\ \A c \in RemoteClients \cap DOMAIN states : \A lay \in Layouts :
          /\ \A i \in DOMAIN states[c].cursors :
                ~Resolves(states[c].cursors[i]) =>
                   RenderCursor(BeforePass, CurrentKey(c),
                                LabelUserName(states[c].user, c),
                                LabelUserColor(states[c].user),
                                states[c].cursors[i], lay) = BeforePass
          /\ RenderCursors(BeforePass, CurrentKey(c), LabelUserName(states[c].user, c),
                           LabelUserColor(states[c].user), states[c].cursors, lay)
                = RenderCursors(BeforePass, CurrentKey(c),
                                LabelUserName(states[c].user, c),
                                LabelUserColor(states[c].user),
                                SelectSeq(states[c].cursors, Resolves), lay)
    /\ PassEnabled =>
          \A lay \in Layouts : \A st \in {UpdateOverlayLabels(lay)} :
             \A c \in RemoteClients \cap DOMAIN states :
                IF PlaceableCursors(c, lay) # {}
                THEN /\ CurrentKey(c) \in DOMAIN st.le
                     /\ st.el[st.le[CurrentKey(c)]].visible
                     /\ \E i \in PlaceableCursors(c, lay) :
                           st.el[st.le[CurrentKey(c)]].left
                              = ClampPosition(states[c].cursors[i].head.index, DocLength)
                ELSE LabelView(CurrentKey(c), st.le, st.ht, st.el, st.bd, st.tm)
                        = LabelView(CurrentKey(c), labelElements, hideTimers,
                                    elem, body, timers)
    /\ \A c \in RemoteClients \cap DOMAIN states :
          /\ CellsForUser(states[c].cursors)
                = CellsForUser(SelectSeq(states[c].cursors, Resolves))
          /\ (\A i \in DOMAIN states[c].cursors : ~Resolves(states[c].cursors[i]))
                => CellsForUser(states[c].cursors) = {}
    /\ Subscribed("cell") =>
          \A c \in NamedRemote(states) :
             \A cellId \in {"cell1", "cell2"} :
                (\E i \in DOMAIN states[c].cursors :
                    /\ Resolves(states[c].cursors[i])
                    /\ states[c].cursors[i].head.type = TextOfCell(cellId))
                   => /\ cellId \in DOMAIN collaboratorsByCellId
                      /\ c \in DOMAIN collaboratorsByCellId[cellId]
\* C29 witness: client 2 has a stale cursor before a cursor at offset 1 of
\* this editor; a pass has run and its label is shown at offset 1, next to
\* the label of client 3; the cell-awareness widget has both under the cell
C29_Witness_StaleThenResolvable ==
    /\ plugin = "active" /\ frameLeft = 0 /\ ~hostError
    /\ DOMAIN states = {LocalClient, 2, 3}
    /\ states[2].cursors = <<Cur(StaleHead), Cur(AbsHead(YThis, 1))>>
    /\ CurrentKey(2) \in DOMAIN labelElements
    /\ elem[labelElements[CurrentKey(2)]].left = 1
    /\ elem[labelElements[CurrentKey(2)]].visible
    /\ CurrentKey(3) \in DOMAIN labelElements
    /\ Subscribed("cell")
    /\ DOMAIN collaboratorsByCellId = {"cell1"}
    /\ DOMAIN collaboratorsByCellId["cell1"] = {2, 3}

(***************************************************************************)
(* Properties of the per-cell indicators.                                   *)
(***************************************************************************)
\* the remote clients of sts the cell-awareness widget finds a name for
\* (user.name, or user.display_name in its place) that have a cursor whose
\* head resolves into the text of cell cellId
ClientsInCell(sts, cellId) ==
    {c \in DOMAIN sts :
        /\ c # LocalClient
        /\ sts[c].user.name # "" \/ sts[c].user.display_name # ""
        /\ \E i \in DOMAIN sts[c].cursors :
              /\ sts[c].cursors[i].head \notin {NoHead, StaleHead, MalformedHead}
              /\ sts[c].cursors[i].head.type = TextOfCell(cellId)}

\* C30: after the cell-awareness widget has handled a change of the
\* awareness states, a cell without a remote named client in it has no
\* indicator, and every other cell has one indicator, the avatar stack of
\* exactly the remote named clients with a cursor in that cell
C30_CellIndicators ==
    [][states' # states /\ Subscribed("cell") =>
          \A cellId \in {"cell1", "cell2"} :
             IF ClientsInCell(states', cellId) = {}
             THEN cellId \notin DOMAIN indicatorElements'
             ELSE /\ cellId \in DOMAIN indicatorElements'
                  /\ cellId \in DOMAIN collaboratorsByCellId'
                  /\ DOMAIN collaboratorsByCellId'[cellId]
                        = ClientsInCell(states', cellId)
                  /\ StackRule(collaboratorsByCellId'[cellId],
                               indicatorElements'[cellId])
                  /\ StackSize(indicatorElements'[cellId])
                        = Cardinality(ClientsInCell(states', cellId))]_vars
\* C30 witness: clients 2, 3, 4 and 5 are in the first cell, client 5 also in
\* the second one; the first cell has the indicator of the four, the second
\* cell the indicator of client 5
C30_Witness_TwoCells ==
    /\ Subscribed("cell")
    /\ ClientsInCell(states, "cell1") = {2, 3, 4, 5}
    /\ ClientsInCell(states, "cell2") = {5}
    /\ DOMAIN indicatorElements = {"cell1", "cell2"}
    /\ DOMAIN collaboratorsByCellId["cell1"] = {2, 3, 4, 5}
    /\ StackClients(indicatorElements["cell2"]) = {5}

(***************************************************************************)
(* Properties of the order of the modal's show and hide events.             *)
(***************************************************************************)
\* C31: the modal shown for the avatar under the pointer stays the current
\* modal of its widget, attached to document.body, as long as the pointer
\* stays on that avatar (no hide is scheduled after its show) and the widget
\* is not disposed: no timer of an earlier hide removes it
C31_LastShownModalStays ==
    [][(/\ hover.kind = "avatar" /\ hover' = hover
        /\ ~disposed'[hover.w]
        /\ currentModal[hover.w] \in body)
          => /\ currentModal'[hover.w] = currentModal[hover.w]
             /\ currentModal[hover.w] \in body']_vars

(***************************************************************************)
(* Properties of the name a surface shows.                                  *)
(***************************************************************************)
\* the user has a name and, in both spellings of the field, a display name
HasBothNames(user) ==
    user.name # "" /\ user.display_name # "" /\ user.displayName = user.display_name

\* C32: a remote client whose user has a display name and a name is shown
\* under the display name wherever it is shown: in the toolbar's
\* collaborators, in the collaborators of every cell and on its label
C32_DisplayNameFirst ==
    \A c \in RemoteClients \cap DOMAIN states :
       HasBothNames(states[c].user) =>
          /\ Subscribed("toolbar") /\ c \in DOMAIN collaborators =>
                collaborators[c].name = states[c].user.display_name
          /\ \A cellId \in DOMAIN collaboratorsByCellId :
                Subscribed("cell") /\ c \in DOMAIN collaboratorsByCellId[cellId] =>
                   collaboratorsByCellId[cellId][c].name = states[c].user.display_name
          /\ CurrentKey(c) \in DOMAIN labelElements =>
                elem[labelElements[CurrentKey(c)]].name = states[c].user.display_name

(***************************************************************************)
(* Properties of the position of the modal.                                 *)
(***************************************************************************)
\* rectangles and window widths around the thresholds of the clamp and of
\* the flip: avatars at the left edge, in the middle and at the right edge,
\* of even, odd and no width; modals that fit the window, that fit it
\* exactly and that are wider than it
PositionInputs ==
    {Geometry(Rect(l, t, w, 24), Rect(0, 0, mw, 50), iw) :
        l \in {0, 3, 50, 195, 300}, t \in {0, 7, 8, 65, 66, 100},
        w \in {0, 24, 25}, mw \in {0, 100, 101, 184, 185, 300},
        iw \in {0, 200, 201, 320}}
\* twice the left edge of a modal centred on the avatar, the top edge of a
\* modal 8 pixels above the avatar
Centred2(geo) ==
    2 * geo.targetRect.left + geo.targetRect.width - geo.modalRect.width
Above(geo) == geo.targetRect.top - geo.modalRect.height - 8
Below(geo) == geo.targetRect.top + geo.targetRect.height + 8
\* the modal at position at is not cut off at the left, at the right
LeftInside(at) == 2 * 8 <= at.left2
RightInside(at, geo) ==
    at.left2 + 2 * geo.modalRect.width <= 2 * (geo.innerWidth - 8)
\* the modal is below the avatar exactly when it would be cut off above it
FlipRule(at, geo) ==
    at.top = (IF Above(geo) < 8 THEN Below(geo) ELSE Above(geo))
\* the modal is inside the window horizontally whenever the window has room
\* for it and the two margins, centred on the avatar when that is inside,
\* and at the left margin when the window has no room
ClampRule(at, geo) ==
    /\ LeftInside(at)
    /\ geo.modalRect.width + 2 * 8 <= geo.innerWidth =>
          /\ RightInside(at, geo)
          /\ LeftInside([left2 |-> Centred2(geo)])
               /\ RightInside([left2 |-> Centred2(geo)], geo)
                  => at.left2 = Centred2(geo)
    /\ geo.modalRect.width + 2 * 8 > geo.innerWidth => at.left2 = 2 * 8
\* the position of the modal a mouseenter has just shown
ShownAt(w) == [left2 |-> elem'[currentModal'[w]].left2,
               top |-> elem'[currentModal'[w]].top]
PositionOf(geo) == PositionModal(geo.targetRect, geo.modalRect, geo.innerWidth)

AmendedOnAllInputs ==
    \A geo \in PositionInputs :
       ClampRule(PositionOf(geo), geo) /\ FlipRule(PositionOf(geo), geo)
ConnectsNow(w) == ~ready[w] /\ ready'[w] /\ wAwareness'[w]

\* C34: when the connection step of a widget has finished, what the widget
\* shows is what the current awareness state gives: the toolbar roster is
\* the rendering of the collaborators of the states, and the per-cell
\* indicators are the rendering of the collaborators of each cell, without
\* any further awareness change.
C34_ConnectShowsPresentUsers ==
    [][/\ ConnectsNow("toolbar") =>
            LET r == RenderCollaborators(CollaboratorsFromStates(states'))
            IN roster' = r.roster /\ tbHidden' = r.hidden
       /\ ConnectsNow("cell") =>
            indicatorElements' =
                RenderCellIndicators(CellCollaboratorsFromStates(states'))]_vars

(***************************************************************************)
(* C35: the subscription of a plugin whose first pass failed.               *)
(***************************************************************************)
\* the state of a remote client changes in this step
RemoteChange ==
    /\ states' # states
    /\ \E c \in RemoteClients :
          \/ (c \in DOMAIN states) # (c \in DOMAIN states')
          \/ c \in DOMAIN states /\ c \in DOMAIN states' /\ states'[c] # states[c]

\* C35: a failure of the first pass inside the constructor does not stop
\* the plugin from reacting to later awareness changes: after construction
\* (and until destroy()) the change listener is registered, whether the
\* first pass threw or not, and a later change of a remote client requests
\* a pass for the next animation frame.
C35_FailedFirstPassStillSubscribes ==
    [][/\ (plugin = "none" /\ plugin' # "none") => PluginListener \in observers'
       /\ (plugin \in {"active", "failed"} /\ RemoteChange)
             => /\ PluginListener \in observers
                /\ rafQueue' = rafQueue + 1]_vars

(***************************************************************************)
(* C36: every modal leaves document.body.                                   *)
(***************************************************************************)
\* setTimeout: a pending timer of a modal expires after its delay
TimersExpire ==
    /\ WF_vars(\E i \in DOMAIN timers : HideModalExpire(i))
    /\ WF_vars(\E i \in DOMAIN timers : RemoveModalExpire(i))

\* the widgets and their modals, with timers that expire
SpecModalFair == Init /\ [][NextModal]_vars /\ TimersExpire

\* C36: every modal a widget attached to document.body is detached in the
\* end, once the pointer is over no avatar and no modal and stays there
\* (no further hover events): also when a second modal was shown while the
\* first was still attached, and when the roster or an indicator was
\* rendered again while the modal was shown.
C36_ModalsEventuallyDetached ==
    <>[](hover = NoHover) => <>[](Modals(elem) \cap body = {})

(***************************************************************************)
(* C37: the identity shown by the per-cell indicators.                      *)
(***************************************************************************)
\* C37: when the cell widget has handled a notification, every avatar of
\* every cell indicator shows the name, the color and the initials its
\* client has in the current awareness state, also when the client changed
\* its name or color and stayed in the same cells.
C37_IndicatorsShowCurrentIdentity ==
    [][states' # states /\ Subscribed("cell") /\ wAwareness["cell"] =>
          \A byCell \in {CellCollaboratorsFromStates(states')} :
             \A cellId \in DOMAIN indicatorElements' :
                \A i \in DOMAIN indicatorElements'[cellId] :
                   LET a == indicatorElements'[cellId][i]
                   IN a.kind = "user" =>
                         /\ cellId \in DOMAIN byCell
                         /\ a.collaborator.clientId \in DOMAIN byCell[cellId]
                         /\ a.collaborator
                               = byCell[cellId][a.collaborator.clientId]]_vars

(***************************************************************************)
(* C38: one label per remote client.                                        *)
(***************************************************************************)
\* the key the pass gives client c now (<<>>: c has left the states)
KeyNow(c) == IF c \in DOMAIN states THEN {CurrentKey(c)} ELSE {}

\* C38: after every completed pass there is at most one tracked label per
\* remote client, the one of the client's present key; a label the client
\* had under another name before the pass is removed by that pass (out of
\* labelElements and out of document.body) and its hide timer is cleared
\* (out of hideTimers and no longer pending).
C38_OneLabelPerClient ==
    (PassEnabled /\ ~PassThrows) =>
       \A lay \in ProjectionLayouts : \A st \in {UpdateOverlayLabels(lay)} :
          \A c \in RemoteClients :
             /\ Cardinality(KeysOf(c, st.le)) <= 1
             /\ KeysOf(c, st.le) \subseteq KeyNow(c)
             /\ \A k \in KeysOf(c, labelElements) \ KeyNow(c) :
                   /\ labelElements[k] \notin st.bd
                   /\ k \notin DOMAIN st.ht
                   /\ k \in DOMAIN hideTimers =>
                         hideTimers[k] \notin TimerIds(st.tm)

\* C38 witness: a pass is about to run while client 2 has the label of its
\* old name "ann", with the hide timer pending, and now carries the display
\* name "dee"
C38_Witness_RenamedBeforePass ==
    /\ frameLeft > 0 /\ ~PassThrows
    /\ 2 \in DOMAIN states
    /\ CurrentKey(2) = UserKey(2, "dee")
    /\ states[2].cursors # <<>>
    /\ UserKey(2, "ann") \in DOMAIN labelElements
    /\ UserKey(2, "ann") \in DOMAIN hideTimers
    /\ hideTimers[UserKey(2, "ann")] \in TimerIds(timers)

(***************************************************************************)
(* C39: the initials are never empty.                                       *)
(***************************************************************************)
\* C39: generateInitials gives every name, also one made of white space
\* only or with white space before or after its word, a string of one or
\* two characters: every entry of the toolbar and of the cells carries
\* initials of that length.
C39_InitialsNeverEmpty ==
    \A e \in ShownEntries : Len(e.initials) \in 1..2

(***************************************************************************)
(* C40: the bookkeeping of the cursor-label plugin.                         *)
(***************************************************************************)
\* C40: in every reachable state every key of hideTimers is a key of
\* labelElements, every entry of hideTimers is the handle of a timer that
\* is still pending (the hide timer of that key), and every element of
\* labelElements is attached to document.body.
C40_LabelBookkeeping ==
    /\ DOMAIN hideTimers \subseteq DOMAIN labelElements
    /\ \A k \in DOMAIN hideTimers :
          \E i \in DOMAIN timers :
             /\ timers[i].id = hideTimers[k]
             /\ timers[i].kind = "hideLabel"
             /\ timers[i].key = k
    /\ \A k \in DOMAIN labelElements :
          /\ labelElements[k] \in DOMAIN elem
          /\ labelElements[k] \in body

\* C40 witness: client 2 has a label whose timer has expired (tracked and
\* attached, without an entry in hideTimers) and client 3 a label whose
\* timer is pending
C40_Witness_ExpiredAndPending ==
    /\ \E k \in KeysOf(2, labelElements) :
          k \notin DOMAIN hideTimers /\ labelElements[k] \in body
    /\ \E k \in KeysOf(3, labelElements) :
          k \in DOMAIN hideTimers /\ hideTimers[k] \in TimerIds(timers)

=============================================================================
